---- MODULE Spec2Model ----
(***************************************************************************)
(* Model of scripts/analyze_compatibility.py: the rule engine that         *)
(* compares tutorial requirements against Jetson facts and a JP5/JP6       *)
(* compatibility matrix (Spec); of extract_constraints in                  *)
(* scripts/extract_tutorial_requirements.py (SpecExtract); of the step     *)
(* loop of scripts/generate_deploy_plan.py (SpecPlan); and of single calls *)
(* of the pure functions of the rule engine (SpecCompare, SpecSatisfies,   *)
(* SpecInfer).  Each specification leaves the variables of the others at   *)
(* their idle values.                                                      *)
(*                                                                         *)
(* Strings are sequences of one-character strings wherever the code looks  *)
(* inside them (versions, component names, model names).  Formatted        *)
(* messages (f-strings) are sequences of chunks: the literal pieces of the *)
(* template and the characters of the interpolated values.  A JSON object  *)
(* is a function; dict.get(k, default) is Get.                             *)
(***************************************************************************)
EXTENDS Integers, Sequences, FiniteSets, TLC

VARIABLES pc, facts, requirements, matrix, facts_series, facts_model,
          constraints, issues, blocked_items, ready_items, alternatives,
          recommended_actions, action_index, overall_status

(* one call of a pure function: its arguments and, once made, its results *)
VARIABLES call

(* extract_constraints: the lines with their regex matches, the position of
   the two loops, the seen set and the list built *)
VARIABLES ec_pc, ec_lines, ec_pos, ec_seen, ec_constraints

(* generate_deploy_plan.main *)
VARIABLES plan_pc, analysis, allow_sudo, mode, actions, steps,
          manual_prerequisites, step_counter

main_vars == <<pc, facts, requirements, matrix, facts_series, facts_model,
               constraints, issues, blocked_items, ready_items, alternatives,
               recommended_actions, action_index, overall_status>>

call_vars == <<call>>

extract_vars == <<ec_pc, ec_lines, ec_pos, ec_seen, ec_constraints>>

plan_vars == <<plan_pc, analysis, allow_sudo, mode, actions, steps,
               manual_prerequisites, step_counter>>

vars == <<pc, facts, requirements, matrix, facts_series, facts_model,
          constraints, issues, blocked_items, ready_items, alternatives,
          recommended_actions, action_index, overall_status,
          call, ec_pc, ec_lines, ec_pos, ec_seen, ec_constraints,
          plan_pc, analysis, allow_sudo, mode, actions, steps,
          manual_prerequisites, step_counter>>

(* the values of the variables of a program that is not running *)
CallIdle == call = [fn |-> "none"]

ExtractIdle ==
    /\ ec_pc = "idle"
    /\ ec_lines = <<>>
    /\ ec_pos = <<0, 1>>
    /\ ec_seen = {}
    /\ ec_constraints = <<>>

PlanIdle ==
    /\ plan_pc = "idle"
    /\ analysis = [k \in {} |-> k]
    /\ allow_sudo = "no"
    /\ mode = "plan"
    /\ actions = <<>>
    /\ steps = <<>>
    /\ manual_prerequisites = <<>>
    /\ step_counter = 1

MainIdle ==
    /\ pc = "idle"
    /\ facts = [k \in {} |-> k]
    /\ requirements = [k \in {} |-> k]
    /\ matrix = [k \in {} |-> k]
    /\ facts_series = <<>>
    /\ facts_model = <<>>
    /\ constraints = <<>>
    /\ issues = <<>>
    /\ blocked_items = <<>>
    /\ ready_items = <<>>
    /\ alternatives = <<>>
    /\ recommended_actions = <<>>
    /\ action_index = 1
    /\ overall_status = ""

----------------------------------------------------------------------------
(* Bounds of the model *)

MaxConstraints == 2

----------------------------------------------------------------------------
(* Strings and dictionaries *)

EmptyDict == [k \in {} |-> k]

Get(d, k, default) == IF k \in DOMAIN d THEN d[k] ELSE default

s_empty == <<>>
s_unknown == <<"u", "n", "k", "n", "o", "w", "n">>
s_5x == <<"5", ".", "x">>
s_6x == <<"6", ".", "x">>
s_5 == <<"5">>
s_6 == <<"6">>
s_R35 == <<"R", "3", "5">>
s_R36 == <<"R", "3", "6">>
s_l4t == <<"l", "4", "t">>
s_jetpack == <<"j", "e", "t", "p", "a", "c", "k">>
s_cuda == <<"c", "u", "d", "a">>
s_python == <<"p", "y", "t", "h", "o", "n">>
s_ubuntu == <<"u", "b", "u", "n", "t", "u">>
s_pytorch == <<"p", "y", "t", "o", "r", "c", "h">>
s_onnxruntime == <<"o", "n", "n", "x", "r", "u", "n", "t", "i", "m", "e">>
s_tensorrt == <<"t", "e", "n", "s", "o", "r", "r", "t">>
s_hardware == <<"h", "a", "r", "d", "w", "a", "r", "e">>
s_min == <<"m", "i", "n">>
s_max == <<"m", "a", "x">>
s_tensorrt_major == <<"t", "e", "n", "s", "o", "r", "r", "t", "_", "m", "a", "j", "o", "r">>
op_eq == <<"=", "=">>
op_ge == <<">", "=">>
op_le == <<"<", "=">>
op_gt == <<">">>
op_lt == <<"<">>
op_compat == <<"~", "=">>

DigitChars == <<"0", "1", "2", "3", "4", "5", "6", "7", "8", "9">>
UpperChars == <<"A", "B", "C", "D", "E", "F", "G", "H", "I", "J", "K", "L", "M",
                "N", "O", "P", "Q", "R", "S", "T", "U", "V", "W", "X", "Y", "Z">>
LowerChars == <<"a", "b", "c", "d", "e", "f", "g", "h", "i", "j", "k", "l", "m",
                "n", "o", "p", "q", "r", "s", "t", "u", "v", "w", "x", "y", "z">>

IsDigit(c) == \E i \in 1..10 : DigitChars[i] = c
DigitVal(c) == (CHOOSE i \in 1..10 : DigitChars[i] = c) - 1
IsWordChar(c) == \/ IsDigit(c)
                 \/ c = "_"
                 \/ \E i \in 1..26 : UpperChars[i] = c \/ LowerChars[i] = c

(* str.lower() *)
LowerChar(c) == IF \E i \in 1..26 : UpperChars[i] = c
                THEN LowerChars[CHOOSE i \in 1..26 : UpperChars[i] = c]
                ELSE c
Lower(s) == [i \in 1..Len(s) |-> LowerChar(s[i])]

(* str.replace(" ", "") *)
RemoveSpaces(s) == SelectSeq(s, LAMBDA c : c # " ")

(* str.strip() *)
RECURSIVE LStrip(_)
LStrip(s) == IF s # <<>> /\ Head(s) = " " THEN LStrip(Tail(s)) ELSE s
RECURSIVE RStrip(_)
RStrip(s) == IF s # <<>> /\ s[Len(s)] = " " THEN RStrip(SubSeq(s, 1, Len(s) - 1)) ELSE s
Strip(s) == RStrip(LStrip(s))

(* str.startswith(p), str.endswith(p), p in s *)
StartsWith(s, p) == Len(p) <= Len(s) /\ SubSeq(s, 1, Len(p)) = p
EndsWith(s, p) == Len(p) <= Len(s) /\ SubSeq(s, Len(s) - Len(p) + 1, Len(s)) = p
Contains(s, p) == \E i \in 1..(Len(s) - Len(p) + 1) : SubSeq(s, i, i + Len(p) - 1) = p

(* s.split(".") *)
RECURSIVE SplitDot(_, _, _)
SplitDot(s, acc, cur) ==
    IF s = <<>> THEN Append(acc, cur)
    ELSE IF Head(s) = "." THEN SplitDot(Tail(s), Append(acc, cur), <<>>)
    ELSE SplitDot(Tail(s), acc, Append(cur, Head(s)))
Split(s) == SplitDot(s, <<>>, <<>>)

(* s.split(".", 1)[0] and s.split(".")[0] *)
FirstSegment(s) == Split(s)[1]

(* ".".join(parts) *)
RECURSIVE JoinDot(_)
JoinDot(parts) ==
    IF parts = <<>> THEN <<>>
    ELSE IF Len(parts) = 1 THEN parts[1]
    ELSE parts[1] \o <<".">> \o JoinDot(Tail(parts))

----------------------------------------------------------------------------
(* Version comparator *)

(* re.findall(r"\d+", version) converted with int() *)
RECURSIVE FindAllNums(_, _, _)
FindAllNums(s, acc, cur) ==
    IF s = <<>> THEN acc \o cur
    ELSE IF IsDigit(Head(s))
         THEN FindAllNums(Tail(s), acc,
                          <<(IF cur = <<>> THEN 0 ELSE cur[1]) * 10 + DigitVal(Head(s))>>)
         ELSE FindAllNums(Tail(s), acc \o cur, <<>>)

version_tuple(version) ==
    LET nums == FindAllNums(version, <<>>, <<>>)
    IN IF nums # <<>> THEN nums ELSE <<0>>

(* list "<" of Python on two lists of equal length *)
RECURSIVE LexLess(_, _)
LexLess(a, b) ==
    IF a = <<>> \/ b = <<>> THEN Len(a) < Len(b)
    ELSE IF Head(a) # Head(b) THEN Head(a) < Head(b)
    ELSE LexLess(Tail(a), Tail(b))

PadZeros(a, size) == a \o [i \in 1..(size - Len(a)) |-> 0]

(* variant: the tuples are compared without padding the shorter one *)
compare_versions_NoPad(left, right) ==
    LET a == version_tuple(left)
        b == version_tuple(right)
    IN IF LexLess(a, b) THEN -1
       ELSE IF LexLess(b, a) THEN 1
       ELSE 0

compare_versions(left, right) ==
    LET a0 == version_tuple(left)
        b0 == version_tuple(right)
        size == IF Len(a0) >= Len(b0) THEN Len(a0) ELSE Len(b0)
        a == PadZeros(a0, size)
        b == PadZeros(b0, size)
    IN IF LexLess(a, b) THEN -1
       ELSE IF LexLess(b, a) THEN 1
       ELSE 0

(* variant: "~=" is read as an exact match *)
satisfies_CompatAsEqual(installed, operator, required) ==
    LET cmp_value == compare_versions(installed, required)
    IN IF operator = op_eq THEN cmp_value = 0
       ELSE IF operator = op_ge THEN cmp_value >= 0
       ELSE IF operator = op_le THEN cmp_value <= 0
       ELSE IF operator = op_gt THEN cmp_value > 0
       ELSE IF operator = op_lt THEN cmp_value < 0
       ELSE IF operator = op_compat THEN cmp_value = 0
       ELSE FALSE

satisfies(installed, operator, required) ==
    LET cmp_value == compare_versions(installed, required)
    IN IF operator = op_eq THEN cmp_value = 0
       ELSE IF operator = op_ge THEN cmp_value >= 0
       ELSE IF operator = op_le THEN cmp_value <= 0
       ELSE IF operator = op_gt THEN cmp_value > 0
       ELSE IF operator = op_lt THEN cmp_value < 0
       ELSE IF operator = op_compat THEN cmp_value >= 0
       ELSE FALSE

----------------------------------------------------------------------------
(* Series inference *)

(* variant: the l4t release is consulted before the installed version *)
infer_jetpack_series_L4tFirst(f) ==
    LET series == Strip(Get(Get(f, "jetpack", EmptyDict), "series", s_empty))
        jp_version == Get(Get(f, "jetpack", EmptyDict), "installed_version", s_empty)
        l4t_release == Get(Get(f, "l4t", EmptyDict), "release", s_empty)
    IN IF series \in {s_5x, s_6x} THEN series
       ELSE IF StartsWith(l4t_release, s_R35) THEN s_5x
       ELSE IF StartsWith(l4t_release, s_R36) THEN s_6x
       ELSE IF StartsWith(jp_version, s_5) THEN s_5x
       ELSE IF StartsWith(jp_version, s_6) THEN s_6x
       ELSE s_unknown

infer_jetpack_series(f) ==
    LET series == Strip(Get(Get(f, "jetpack", EmptyDict), "series", s_empty))
        jp_version == Get(Get(f, "jetpack", EmptyDict), "installed_version", s_empty)
        l4t_release == Get(Get(f, "l4t", EmptyDict), "release", s_empty)
    IN IF series \in {s_5x, s_6x} THEN series
       ELSE IF StartsWith(jp_version, s_5) THEN s_5x
       ELSE IF StartsWith(jp_version, s_6) THEN s_6x
       ELSE IF StartsWith(l4t_release, s_R35) THEN s_5x
       ELSE IF StartsWith(l4t_release, s_R36) THEN s_6x
       ELSE s_unknown

major_to_series(version) ==
    LET major == IF EndsWith(Lower(version), <<".", "x">>)
                 THEN FirstSegment(version)
                 ELSE FirstSegment(version)
    IN IF major = s_5 THEN s_5x
       ELSE IF major = s_6 THEN s_6x
       ELSE s_unknown

----------------------------------------------------------------------------
(* Component resolver *)

(* re.search(r"\b(\d{2}\.\d{2})\b", pretty): leftmost NN.NN at word boundaries *)
UbuntuMatchAt(s, i) ==
    /\ i + 4 <= Len(s)
    /\ IsDigit(s[i]) /\ IsDigit(s[i + 1]) /\ s[i + 2] = "."
    /\ IsDigit(s[i + 3]) /\ IsDigit(s[i + 4])
    /\ (i = 1 \/ ~IsWordChar(s[i - 1]))
    /\ (i + 4 = Len(s) \/ ~IsWordChar(s[i + 5]))

find_ubuntu_version(f) ==
    LET pretty == Get(Get(f, "os", EmptyDict), "pretty_name", s_empty)
        hits == {i \in 1..Len(pretty) : UbuntuMatchAt(pretty, i)}
    IN IF hits # {}
       THEN LET i == CHOOSE j \in hits : \A k \in hits : j <= k
            IN SubSeq(pretty, i, i + 4)
       ELSE s_unknown

get_installed_component_version(component, f) ==
    IF component = s_jetpack
    THEN Get(Get(f, "jetpack", EmptyDict), "installed_version", s_unknown)
    ELSE IF component = s_cuda
    THEN Get(Get(f, "cuda", EmptyDict), "version", s_unknown)
    ELSE IF component = s_python
    THEN Get(Get(f, "python", EmptyDict), "version", s_unknown)
    ELSE IF component = s_ubuntu
    THEN find_ubuntu_version(f)
    ELSE IF component = s_tensorrt
    THEN Get(Get(f, "tensorrt", EmptyDict), "version", s_unknown)
    ELSE s_unknown

----------------------------------------------------------------------------
(* Matrix lookup *)

component_support(m, component, series) ==
    Get(Get(Get(m, "component_support", EmptyDict), component, EmptyDict), series, <<>>)

(* variant: the first (oldest) entry is recommended *)
pick_supported_version_First(m, component, series) ==
    LET supported == component_support(m, component, series)
    IN IF supported = <<>> THEN s_empty ELSE supported[1]

pick_supported_version(m, component, series) ==
    LET supported == component_support(m, component, series)
    IN IF supported = <<>> THEN s_empty ELSE supported[Len(supported)]

component_range(m, series, component) ==
    LET series_info == Get(Get(m, "jetpack_series", EmptyDict), series, EmptyDict)
        entry == Get(series_info, component, EmptyDict)
    IN <<Get(entry, s_min, s_empty), Get(entry, s_max, s_empty)>>

tensorrt_expected_major(m, series) ==
    Get(Get(Get(m, "jetpack_series", EmptyDict), series, EmptyDict), s_tensorrt_major, s_empty)

jetpack_major_mismatch_alternative(m) ==
    Get(Get(m, "alternatives", EmptyDict), "jetpack_major_mismatch",
        <<"Use a compatible tutorial or reflash to matching major.">>)

----------------------------------------------------------------------------
(* Hardware models, component names, output helpers *)

known_models ==
    << <<"j", "e", "t", "s", "o", "n", " ", "n", "a", "n", "o">>,
       <<"j", "e", "t", "s", "o", "n", " ", "x", "a", "v", "i", "e", "r", " ", "n", "x">>,
       <<"j", "e", "t", "s", "o", "n", " ", "a", "g", "x", " ", "x", "a", "v", "i", "e", "r">>,
       <<"j", "e", "t", "s", "o", "n", " ", "o", "r", "i", "n", " ", "n", "a", "n", "o">>,
       <<"j", "e", "t", "s", "o", "n", " ", "o", "r", "i", "n", " ", "n", "x">>,
       <<"j", "e", "t", "s", "o", "n", " ", "a", "g", "x", " ", "o", "r", "i", "n">>,
       <<"j", "e", "t", "s", "o", "n", " ", "t", "x", "2">> >>

InSeq(x, seq) == \E i \in 1..Len(seq) : seq[i] = x

(* inner loop of detect_required_models over known_models[k..] for one line *)
RECURSIVE DetectInLine(_, _, _)
DetectInLine(lowered, k, found) ==
    IF k > Len(known_models) THEN found
    ELSE LET model == known_models[k]
         IN IF Contains(lowered, model) /\ ~InSeq(model, found)
            THEN DetectInLine(lowered, k + 1, Append(found, model))
            ELSE DetectInLine(lowered, k + 1, found)

RECURSIVE DetectLines(_, _)
DetectLines(lines, found) ==
    IF lines = <<>> THEN found
    ELSE DetectLines(Tail(lines), DetectInLine(Lower(Head(lines)), 1, found))

(* variant: the line is not lowered before the models are looked for *)
RECURSIVE DetectLines_CaseSensitive(_, _)
DetectLines_CaseSensitive(lines, found) ==
    IF lines = <<>> THEN found
    ELSE DetectLines_CaseSensitive(Tail(lines), DetectInLine(Head(lines), 1, found))
detect_required_models_CaseSensitive(hardware_requirements) ==
    DetectLines_CaseSensitive(hardware_requirements, <<>>)

detect_required_models(hardware_requirements) == DetectLines(hardware_requirements, <<>>)

normalize_component(raw) ==
    LET lowered == RemoveSpaces(Lower(raw))
    IN IF lowered \in {s_onnxruntime} THEN s_onnxruntime ELSE lowered

(* variant: each new string is put in front of the result *)
RECURSIVE unique_strings_Prepend(_)
unique_strings_Prepend(items) ==
    IF items = <<>> THEN <<>>
    ELSE LET init == unique_strings_Prepend(SubSeq(items, 1, Len(items) - 1))
             item == items[Len(items)]
         IN IF InSeq(item, init) THEN init ELSE <<item>> \o init

RECURSIVE unique_strings(_)
unique_strings(items) ==
    IF items = <<>> THEN <<>>
    ELSE LET init == unique_strings(SubSeq(items, 1, Len(items) - 1))
             item == items[Len(items)]
         IN IF InSeq(item, init) THEN init ELSE Append(init, item)

(* [x for x in alternatives if x] *)
NonEmptyStrings(items) == SelectSeq(items, LAMBDA x : x # <<>>)

(* f"{n:03d}" *)
RECURSIVE IntDigits(_)
IntDigits(n) == IF n < 10 THEN <<DigitChars[n + 1]>>
                ELSE Append(IntDigits(n \div 10), DigitChars[(n % 10) + 1])
Format03d(n) ==
    LET d == IntDigits(n)
    IN [i \in 1..(IF Len(d) < 3 THEN 3 - Len(d) ELSE 0) |-> "0"] \o d

ActionId(n) == <<"action-">> \o Format03d(n)

make_action(action_id, summary, command, requires_sudo, risk_level, rollback_hint, verify_command) ==
    [id |-> action_id, summary |-> summary, command |-> command,
     requires_sudo |-> requires_sudo, risk_level |-> risk_level,
     rollback_hint |-> rollback_hint, verify_command |-> verify_command]

(* f"{operator} {required_version}" *)
RequiredText(operator, required_version) == operator \o <<" ">> \o required_version

----------------------------------------------------------------------------
(* Inputs: the three JSON documents main() loads *)

facts_jp6 ==
    [device |-> [model |-> <<"J", "e", "t", "s", "o", "n", " ", "O", "r", "i", "n", " ", "N", "a", "n", "o">>],
     jetpack |-> [series |-> s_6x, installed_version |-> <<"6", ".", "0">>],
     l4t |-> [release |-> <<"R", "3", "6", ".", "3">>],
     os |-> [pretty_name |-> <<"U", "b", "u", "n", "t", "u", " ", "2", "2", ".", "0", "4", ".", "4">>],
     cuda |-> [version |-> <<"1", "2", ".", "2">>],
     python |-> [version |-> <<"3", ".", "1", "0", ".", "6">>],
     tensorrt |-> [version |-> <<"8", ".", "6">>]]

facts_jp5 ==
    [device |-> [model |-> <<"J", "e", "t", "s", "o", "n", " ", "N", "a", "n", "o">>],
     jetpack |-> [installed_version |-> <<"5", ".", "1">>],
     l4t |-> [release |-> <<"R", "3", "5", ".", "4">>],
     os |-> [pretty_name |-> <<"U", "b", "u", "n", "t", "u", " ", "2", "0", ".", "0", "4">>],
     cuda |-> [version |-> <<"1", "0", ".", "2">>],
     python |-> [version |-> <<"3", ".", "8">>]]

(* series given (with blanks around it), no installed JetPack version *)
facts_series_only ==
    [jetpack |-> [series |-> <<" ", "6", ".", "x", " ">>],
     python |-> [version |-> <<"3", ".", "1", "0", ".", "6">>]]

(* only the L4T release identifies the generation *)
facts_l4t_only ==
    [l4t |-> [release |-> <<"R", "3", "5", ".", "4">>],
     os |-> [pretty_name |-> <<"U", "b", "u", "n", "t", "u", " ", "2", "0", "0", "4">>],
     cuda |-> [version |-> <<"1", "1", ".", "4">>]]

(* explicit series and installed version disagree *)
facts_conflict ==
    [jetpack |-> [series |-> s_5x, installed_version |-> <<"6", ".", "0">>],
     cuda |-> [version |-> <<"1", "0", ".", "2">>]]

FactsSet == {facts_jp6, facts_jp5, facts_series_only, facts_l4t_only, facts_conflict, EmptyDict}

Range(lo, hi) == (s_min :> lo) @@ (s_max :> hi)

matrix_full ==
    [component_support |->
        (s_pytorch :> ((s_5x :> <<<<"1", ".", "1", "3">>, <<"2", ".", "0">>, <<"2", ".", "1">>>>) @@ (s_6x :> <<<<"2", ".", "1">>, <<"2", ".", "3">>>>)))
        @@ (s_onnxruntime :> (s_6x :> <<<<"1", ".", "1", "7">>>>)),
     jetpack_series |->
        (s_5x :> ((s_cuda :> Range(<<"1", "0", ".", "2">>, <<"1", "0", ".", "2">>))
                  @@ (s_python :> Range(<<"3", ".", "6">>, <<"3", ".", "8">>))
                  @@ (s_ubuntu :> Range(<<"1", "8", ".", "0", "4">>, <<"2", "0", ".", "0", "4">>))
                  @@ (s_tensorrt_major :> <<"8">>)))
        @@ (s_6x :> ((s_cuda :> Range(<<"1", "2", ".", "2">>, <<"1", "2", ".", "6">>))
                     @@ (s_python :> Range(<<"3", ".", "1", "0">>, <<"3", ".", "1", "0">>))
                     @@ (s_ubuntu :> Range(<<"2", "2", ".", "0", "4">>, <<"2", "2", ".", "0", "4">>))
                     @@ (s_tensorrt_major :> <<"1", "0">>))),
     alternatives |-> [jetpack_major_mismatch |-> <<"Use the tutorial branch that matches the installed JetPack major.">>]]

(* ranges without max, an empty supported list, an empty alternative text *)
matrix_partial ==
    [component_support |-> (s_pytorch :> ((s_5x :> <<>>) @@ (s_6x :> <<<<"2">>>>))),
     jetpack_series |->
        (s_5x :> (s_cuda :> (s_min :> <<"1", "0", ".", "2">>)))
        @@ (s_6x :> (s_python :> (s_max :> <<"3", ".", "1", "0">>))),
     alternatives |-> [jetpack_major_mismatch |-> s_empty]]

MatrixSet == {matrix_full, matrix_partial, EmptyDict}

RequirementsSet ==
    {EmptyDict,
     [hardware_requirements |-> <<<<"J", "e", "t", "s", "o", "n", " ", "N", "a", "n", "o", " ", "o", "r", " ", "J", "e", "t", "s", "o", "n", " ", "T", "X", "2">>, <<"J", "e", "t", "s", "o", "n", " ", "n", "a", "n", "o", " ", "4", "G", "B">>>>]}

Constraint(component, operator, version) ==
    [component |-> component, operator |-> operator, version |-> version,
     evidence |-> <<"Requires ">> \o component \o <<" ">> \o operator \o <<" ">> \o version]

ConstraintPool ==
    { Constraint(<<"J", "e", "t", "P", "a", "c", "k">>, op_eq, s_5x),
      Constraint(s_jetpack, op_eq, <<"6", ".", "0">>),
      Constraint(s_jetpack, op_ge, <<"6", ".", "0">>),
      Constraint(s_jetpack, op_le, s_6),
      Constraint(s_cuda, op_ge, <<"1", "1", ".", "0">>),
      Constraint(s_cuda, op_compat, <<"1", "2", ".", "2">>),
      Constraint(s_python, op_ge, <<"3", ".", "8">>),
      Constraint(s_python, op_eq, <<"3", ".", "1", "2">>),
      Constraint(s_python, <<"!", "=">>, <<"3", ".", "8">>),
      Constraint(s_ubuntu, op_eq, <<"2", "2", ".", "0", "4">>),
      Constraint(s_ubuntu, op_gt, <<"1", "8", ".", "0", "4">>),
      Constraint(s_pytorch, op_ge, <<"2", ".", "1">>),
      Constraint(s_pytorch, op_eq, <<"1", ".", "8">>),
      Constraint(<<"O", "N", "N", "X", " ", "R", "u", "n", "t", "i", "m", "e">>, op_ge, <<"1", ".", "9">>),
      Constraint(s_tensorrt, op_ge, <<"8", ".", "5">>),
      Constraint(s_tensorrt, op_eq, <<"1", "0">>),
      Constraint(s_l4t, op_eq, <<"R", "3", "5", ".", "4">>),
      [component |-> <<"O", "p", "e", "n", "C", "V">>, version |-> <<"4", ".", "5">>] }

----------------------------------------------------------------------------
(* Rule engine: the decisions of the constraint loop of main() *)

(* repr() of a list of strings inside an f-string *)
RECURSIVE ListItems(_)
ListItems(list) ==
    IF list = <<>> THEN <<>>
    ELSE <<"'">> \o Head(list) \o <<"'">>
         \o (IF Len(list) > 1 THEN <<", ">> ELSE <<>>) \o ListItems(Tail(list))
ListRepr(list) == <<"[">> \o ListItems(list) \o <<"]">>

(* fields read from one raw constraint, lines 229-233 *)
ComponentOf(raw) == normalize_component(Get(raw, "component", s_empty))
OperatorOf(raw) == Get(raw, "operator", op_eq)
VersionOf(raw) == Get(raw, "version", s_empty)
EvidenceOf(raw) == Get(raw, "evidence", s_empty)

JetpackVerdict(operator, required_version, installed_version) ==
    LET required_series == major_to_series(required_version)
        facts_major == major_to_series(installed_version)
    IN IF operator \in {op_eq, op_ge} /\ required_series # s_unknown
       THEN IF operator = op_eq /\ facts_major # required_series
            THEN "major_mismatch"
            ELSE IF /\ operator = op_ge
                    /\ compare_versions(FirstSegment(facts_major), FirstSegment(required_series)) < 0
                 THEN "major_too_low"
                 ELSE "ready"
       ELSE "ready"

(* variant: the series range is consulted before the installed version *)
RangeVerdict_RangeFirst(m, series, component, operator, required_version, installed_version) ==
    LET max_v == component_range(m, series, component)[2]
    IN IF /\ max_v # s_empty
          /\ compare_versions(required_version, max_v) > 0
          /\ operator \in {op_eq, op_ge, op_gt}
       THEN "exceeds_range"
       ELSE IF installed_version = s_unknown THEN "unknown_installed"
       ELSE IF satisfies(installed_version, operator, required_version) THEN "ready"
       ELSE "mismatch"

(* variant: a satisfied constraint is ready before the series range is consulted *)
RangeVerdict_SatisfiedFirst(m, series, component, operator, required_version, installed_version) ==
    LET max_v == component_range(m, series, component)[2]
    IN IF installed_version = s_unknown THEN "unknown_installed"
       ELSE IF satisfies(installed_version, operator, required_version) THEN "ready"
       ELSE IF /\ max_v # s_empty
               /\ compare_versions(required_version, max_v) > 0
               /\ operator \in {op_eq, op_ge, op_gt}
            THEN "exceeds_range"
       ELSE "mismatch"

RangeVerdict(m, series, component, operator, required_version, installed_version) ==
    LET max_v == component_range(m, series, component)[2]
    IN IF installed_version = s_unknown THEN "unknown_installed"
       ELSE IF /\ max_v # s_empty
               /\ compare_versions(required_version, max_v) > 0
               /\ operator \in {op_eq, op_ge, op_gt}
            THEN "exceeds_range"
       ELSE IF satisfies(installed_version, operator, required_version) THEN "ready"
       ELSE "mismatch"

RangeBlockerRequiresSudo(component) == TRUE

MismatchRequiresSudo(component) == component \in {s_cuda, s_ubuntu}

MismatchRiskLevel(component) == IF component \in {s_cuda, s_ubuntu} THEN "high" ELSE "medium"

MismatchSuggestion(component, series) ==
    IF component = s_ubuntu
    THEN <<"Do not force unsupported Ubuntu version changes inside an existing JetPack image.">>
    ELSE IF component = s_cuda
    THEN <<"Stay inside ">> \o series \o <<" CUDA range and use JetPack-aligned CUDA packages.">>
    ELSE IF component = s_python
    THEN <<"Use a project virtual environment and install compatible wheels.">>
    ELSE s_empty

MismatchCommand(component, operator, required_version) ==
    IF component = s_ubuntu
    THEN <<"echo \"Manual action required: Ubuntu baseline mismatch with tutorial.\"">>
    ELSE IF component = s_cuda
    THEN <<"echo \"Adjust CUDA requirement to JetPack-compatible version; avoid cross-major upgrades.\"">>
    ELSE IF component = s_python
    THEN <<"python3 -m venv .venv && . .venv/bin/activate && python3 -m pip install --upgrade pip">>
    ELSE <<"echo \"Adjust ">> \o component \o <<" to satisfy ">>
         \o RequiredText(operator, required_version) \o <<"\"">>

MismatchVerifyCommand(component) ==
    IF component = s_python THEN <<"python3 --version">>
    ELSE <<"python3 - <<'PY'\nprint('verify ">> \o component \o <<" manually')\nPY">>

required_prefix(required_version) ==
    IF InSeq(".", required_version)
    THEN JoinDot(SubSeq(Split(required_version), 1, 2))
    ELSE required_version

supported_ok(supported, required_version) ==
    \E i \in 1..Len(supported) :
        \/ required_prefix(required_version) = supported[i]
        \/ StartsWith(required_version, supported[i])

TestedVerdict(m, series, component, required_version) ==
    LET supported == component_support(m, component, series)
    IN IF supported = <<>> THEN "no_support_map"
       ELSE IF supported_ok(supported, required_version) THEN "ready"
       ELSE "not_tested"

(* variant: the whole required version is compared with the expected major *)
TensorrtVerdict_WholeVersion(m, series, required_version) ==
    LET expected_major == tensorrt_expected_major(m, series)
    IN IF expected_major # s_empty /\ required_version # expected_major
       THEN "blocked"
       ELSE "ready"

TensorrtVerdict(m, series, required_version) ==
    LET required_major == FirstSegment(required_version)
        expected_major == tensorrt_expected_major(m, series)
    IN IF expected_major # s_empty /\ required_major # expected_major
       THEN "blocked"
       ELSE "ready"

(* variant: issues take precedence over blockers *)
ComputeOverallStatus_IssuesFirst(blocked, iss) ==
    IF iss # <<>> THEN "needs-adjustments"
    ELSE IF blocked # <<>> THEN "blocked"
    ELSE "ready"

ComputeOverallStatus(blocked, iss) ==
    IF blocked # <<>> THEN "blocked"
    ELSE IF iss # <<>> THEN "needs-adjustments"
    ELSE "ready"

----------------------------------------------------------------------------
(* State machine of main() *)

Init ==
    /\ facts \in FactsSet
    /\ requirements \in RequirementsSet
    /\ matrix \in MatrixSet
    /\ facts_series = infer_jetpack_series(facts)
    /\ facts_model = Get(Get(facts, "device", EmptyDict), "model", s_unknown)
    /\ issues = <<>>
    /\ blocked_items = <<>>
    /\ ready_items = <<>>
    /\ alternatives = <<>>
    /\ recommended_actions = <<>>
    /\ action_index = 1
    /\ constraints = <<>>
    /\ overall_status = ""
    /\ pc = "hardware"
    /\ CallIdle /\ ExtractIdle /\ PlanIdle

inputs == <<facts, requirements, matrix, facts_series, facts_model>>

(* lines 206-225: the hardware check, once, before the loop *)
HardwareCheck ==
    /\ pc = "hardware"
    /\ LET required_models == detect_required_models(Get(requirements, "hardware_requirements", <<>>))
           model_ok == \E i \in 1..Len(required_models) :
                           Contains(Lower(facts_model), required_models[i])
       IN IF required_models # <<>>
          THEN IF ~model_ok
               THEN /\ blocked_items' = Append(blocked_items,
                          [component |-> s_hardware,
                           message |-> <<"Tutorial targets ">> \o ListRepr(required_models)
                                       \o <<", but device is '">> \o facts_model \o <<"'.">>,
                           required |-> required_models,
                           installed |-> facts_model])
                    /\ alternatives' = Append(alternatives,
                          <<"Use a tutorial that targets the current Jetson model, or switch hardware.">>)
                    /\ UNCHANGED ready_items
               ELSE /\ ready_items' = Append(ready_items,
                          [component |-> s_hardware,
                           required |-> required_models,
                           installed |-> facts_model])
                    /\ UNCHANGED <<blocked_items, alternatives>>
          ELSE UNCHANGED <<blocked_items, alternatives, ready_items>>
    /\ pc' = "loop"
    /\ UNCHANGED <<inputs, constraints, issues, recommended_actions, action_index, overall_status>>
    /\ UNCHANGED <<call_vars, extract_vars, plan_vars>>

(* the loop reads the next element of version_constraints; constraints is the
   prefix of that list iterated so far *)
ReadConstraint(raw) ==
    /\ pc = "loop"
    /\ Len(constraints) < MaxConstraints
    /\ constraints' = Append(constraints, raw)
    /\ UNCHANGED <<pc, inputs, overall_status>>
    /\ UNCHANGED <<call_vars, extract_vars, plan_vars>>

(* variant: the counter is not advanced after the append *)
AddAction_NoIncrement(summary, command, requires_sudo, risk_level, rollback_hint, verify_command) ==
    /\ recommended_actions' = Append(recommended_actions,
           make_action(ActionId(action_index), summary, command, requires_sudo,
                       risk_level, rollback_hint, verify_command))
    /\ action_index' = action_index

AddAction(summary, command, requires_sudo, risk_level, rollback_hint, verify_command) ==
    /\ recommended_actions' = Append(recommended_actions,
           make_action(ActionId(action_index), summary, command, requires_sudo,
                       risk_level, rollback_hint, verify_command))
    /\ action_index' = action_index + 1

NoAction == UNCHANGED <<recommended_actions, action_index>>

(* variant: the l4t branch does not "continue" and falls through to the end of the body *)
ProcessL4t_NoContinue(raw) ==
    /\ ReadConstraint(raw)
    /\ ComponentOf(raw) = s_l4t
    /\ ready_items' = Append(ready_items,
           [component |-> s_l4t,
            required |-> RequiredText(OperatorOf(raw), VersionOf(raw)),
            installed |-> Get(Get(facts, "l4t", EmptyDict), "release", s_unknown)])
    /\ issues' = Append(issues,
           [component |-> s_l4t,
            severity |-> "low",
            message |-> <<"Unknown component '">> \o s_l4t \o <<"'. Manual review required.">>,
            required |-> RequiredText(OperatorOf(raw), VersionOf(raw)),
            installed |-> s_unknown,
            evidence |-> EvidenceOf(raw)])
    /\ alternatives' = Append(alternatives,
           <<"Manually map unknown component '">> \o s_l4t
           \o <<"' to Jetson-compatible packages.">>)
    /\ NoAction
    /\ UNCHANGED blocked_items

(* lines 235-243 *)
ProcessL4t(raw) ==
    /\ ReadConstraint(raw)
    /\ ComponentOf(raw) = s_l4t
    /\ ready_items' = Append(ready_items,
           [component |-> s_l4t,
            required |-> RequiredText(OperatorOf(raw), VersionOf(raw)),
            installed |-> Get(Get(facts, "l4t", EmptyDict), "release", s_unknown)])
    /\ NoAction
    /\ UNCHANGED <<issues, blocked_items, alternatives>>

(* lines 245-304 *)
ProcessJetpack(raw) ==
    /\ ReadConstraint(raw)
    /\ ComponentOf(raw) = s_jetpack
    /\ LET operator == OperatorOf(raw)
           required_version == VersionOf(raw)
           evidence == EvidenceOf(raw)
           installed_version == get_installed_component_version(s_jetpack, facts)
           required_series == major_to_series(required_version)
           facts_major == major_to_series(installed_version)
           verdict == JetpackVerdict(operator, required_version, installed_version)
       IN IF verdict = "major_mismatch"
          THEN /\ blocked_items' = Append(blocked_items,
                     [component |-> s_jetpack,
                      message |-> <<"JetPack major mismatch: requires ">> \o required_series
                                  \o <<", found ">> \o facts_major \o <<".">>,
                      required |-> RequiredText(operator, required_version),
                      installed |-> installed_version,
                      evidence |-> evidence])
               /\ alternatives' = Append(alternatives, jetpack_major_mismatch_alternative(matrix))
               /\ AddAction(<<"Handle JetPack major mismatch manually.">>,
                            <<"echo \"Manual action required: major JetPack mismatch detected. Review fallback or reflash path.\"">>,
                            FALSE, "high",
                            <<"No state changed by this placeholder action.">>,
                            <<"echo \"Verify major compatibility decision is documented.\"">>)
               /\ UNCHANGED <<issues, ready_items>>
          ELSE IF verdict = "major_too_low"
          THEN /\ blocked_items' = Append(blocked_items,
                     [component |-> s_jetpack,
                      message |-> <<"JetPack major too low: requires ">> \o required_series
                                  \o <<" or newer, found ">> \o facts_major \o <<".">>,
                      required |-> RequiredText(operator, required_version),
                      installed |-> installed_version,
                      evidence |-> evidence])
               /\ alternatives' = Append(alternatives, jetpack_major_mismatch_alternative(matrix))
               /\ AddAction(<<"Escalate JetPack major upgrade decision.">>,
                            <<"echo \"Manual decision required: tutorial needs newer JetPack major.\"">>,
                            FALSE, "high",
                            <<"No state changed by this placeholder action.">>,
                            <<"echo \"Verify upgrade or fallback decision is approved.\"">>)
               /\ UNCHANGED <<issues, ready_items>>
          ELSE /\ ready_items' = Append(ready_items,
                     [component |-> s_jetpack,
                      required |-> RequiredText(operator, required_version),
                      installed |-> installed_version])
               /\ NoAction
               /\ UNCHANGED <<issues, blocked_items, alternatives>>

(* lines 306-399 *)
ProcessRangeBounded(raw) ==
    /\ ReadConstraint(raw)
    /\ ComponentOf(raw) \in {s_cuda, s_python, s_ubuntu}
    /\ LET component == ComponentOf(raw)
           operator == OperatorOf(raw)
           required_version == VersionOf(raw)
           evidence == EvidenceOf(raw)
           installed_version == get_installed_component_version(component, facts)
           range == component_range(matrix, facts_series, component)
           verdict == RangeVerdict(matrix, facts_series, component, operator,
                                   required_version, installed_version)
           suggestion == MismatchSuggestion(component, facts_series)
       IN IF verdict = "unknown_installed"
          THEN /\ issues' = Append(issues,
                     [component |-> component,
                      severity |-> "medium",
                      message |-> <<"Installed ">> \o component
                                  \o <<" version is unknown; manual verification required.">>,
                      required |-> RequiredText(operator, required_version),
                      installed |-> installed_version,
                      evidence |-> evidence])
               /\ alternatives' = Append(alternatives,
                     <<"Collect ">> \o component \o <<" facts again and re-run compatibility analysis.">>)
               /\ NoAction
               /\ UNCHANGED <<blocked_items, ready_items>>
          ELSE IF verdict = "exceeds_range"
          THEN /\ blocked_items' = Append(blocked_items,
                     [component |-> component,
                      message |-> component \o <<" requirement ">>
                                  \o RequiredText(operator, required_version)
                                  \o <<" exceeds ">> \o facts_series \o <<" range (max ">>
                                  \o range[2] \o <<").">>,
                      required |-> RequiredText(operator, required_version),
                      installed |-> installed_version,
                      evidence |-> evidence])
               /\ alternatives' = Append(alternatives,
                     <<"Use a ">> \o component \o <<" version within ">> \o facts_series
                     \o <<" supported range (">> \o range[1] \o <<" to ">> \o range[2] \o <<").">>)
               /\ AddAction(<<"Resolve unsupported ">> \o component \o <<" requirement.">>,
                            <<"echo \"Manual action required: adjust ">> \o component
                                \o <<" requirement to ">> \o facts_series \o <<" supported range.\"">>,
                            RangeBlockerRequiresSudo(component), "high",
                            <<"No state changed by this placeholder action.">>,
                            <<"echo \"Verify ">> \o component \o <<" requirement now fits ">>
                                \o facts_series \o <<" range.\"">>)
               /\ UNCHANGED <<issues, ready_items>>
          ELSE IF verdict = "ready"
          THEN /\ ready_items' = Append(ready_items,
                     [component |-> component,
                      required |-> RequiredText(operator, required_version),
                      installed |-> installed_version])
               /\ NoAction
               /\ UNCHANGED <<issues, blocked_items, alternatives>>
          ELSE /\ issues' = Append(issues,
                     [component |-> component,
                      severity |-> MismatchRiskLevel(component),
                      message |-> component \o <<" does not satisfy requirement ">>
                                  \o RequiredText(operator, required_version) \o <<".">>,
                      required |-> RequiredText(operator, required_version),
                      installed |-> installed_version,
                      suggestion |-> suggestion,
                      evidence |-> evidence])
               /\ alternatives' = Append(alternatives,
                     IF suggestion # s_empty THEN suggestion
                     ELSE <<"Adjust ">> \o component
                          \o <<" requirement to match installed JetPack series.">>)
               /\ AddAction(<<"Adjust ">> \o component \o <<" compatibility.">>,
                            MismatchCommand(component, operator, required_version),
                            MismatchRequiresSudo(component),
                            MismatchRiskLevel(component),
                            <<"Remove or recreate the virtual environment if needed.">>,
                            MismatchVerifyCommand(component))
               /\ UNCHANGED <<blocked_items, ready_items>>

(* lines 401-462 *)
ProcessTestedList(raw) ==
    /\ ReadConstraint(raw)
    /\ ComponentOf(raw) \in {s_pytorch, s_onnxruntime}
    /\ LET component == ComponentOf(raw)
           operator == OperatorOf(raw)
           required_version == VersionOf(raw)
           evidence == EvidenceOf(raw)
           supported == component_support(matrix, component, facts_series)
           verdict == TestedVerdict(matrix, facts_series, component, required_version)
           alternative == pick_supported_version(matrix, component, facts_series)
           suggestion == IF alternative # s_empty
                         THEN <<"Pin ">> \o component \o <<" to ">> \o alternative
                              \o <<" for ">> \o facts_series \o <<".">>
                         ELSE <<"Pin ">> \o component \o <<" to a tested version for ">>
                              \o facts_series \o <<".">>
           install_cmd == IF alternative # s_empty
                          THEN <<"python3 -m pip install ">> \o component \o <<"==">> \o alternative
                          ELSE <<"echo \"Select a tested ">> \o component \o <<" version for ">>
                               \o facts_series \o <<".\"">>
       IN IF verdict = "no_support_map"
          THEN /\ issues' = Append(issues,
                     [component |-> component,
                      severity |-> "medium",
                      message |-> <<"No support map found for ">> \o component \o <<" on ">>
                                  \o facts_series \o <<".">>,
                      required |-> RequiredText(operator, required_version),
                      installed |-> s_unknown,
                      evidence |-> evidence])
               /\ alternatives' = Append(alternatives,
                     <<"Manually validate ">> \o component \o <<" package availability for ">>
                     \o facts_series \o <<".">>)
               /\ NoAction
               /\ UNCHANGED <<blocked_items, ready_items>>
          ELSE IF verdict = "ready"
          THEN /\ ready_items' = Append(ready_items,
                     [component |-> component,
                      required |-> RequiredText(operator, required_version),
                      installed |-> <<"compatible with ">> \o facts_series])
               /\ NoAction
               /\ UNCHANGED <<issues, blocked_items, alternatives>>
          ELSE /\ issues' = Append(issues,
                     [component |-> component,
                      severity |-> "medium",
                      message |-> component \o <<" version ">> \o required_version
                                  \o <<" is not in tested list for ">> \o facts_series \o <<".">>,
                      required |-> RequiredText(operator, required_version),
                      installed |-> <<"supported list: ">> \o ListRepr(supported),
                      suggestion |-> suggestion,
                      evidence |-> evidence])
               /\ alternatives' = Append(alternatives, suggestion)
               /\ AddAction(<<"Pin ">> \o component \o <<" to a ">> \o facts_series
                                \o <<" compatible version.">>,
                            install_cmd,
                            FALSE, "medium",
                            <<"Reinstall previous ">> \o component
                                \o <<" version if regression is observed.">>,
                            <<"python3 - <<'PY'\nimport importlib\nm=importlib.import_module('">>
                                \o component
                                \o <<"')\nprint(getattr(m, '__version__', 'unknown'))\nPY">>)
               /\ UNCHANGED <<blocked_items, ready_items>>

(* lines 464-497 *)
ProcessTensorrt(raw) ==
    /\ ReadConstraint(raw)
    /\ ComponentOf(raw) = s_tensorrt
    /\ LET operator == OperatorOf(raw)
           required_version == VersionOf(raw)
           evidence == EvidenceOf(raw)
           required_major == FirstSegment(required_version)
           expected_major == tensorrt_expected_major(matrix, facts_series)
           verdict == TensorrtVerdict(matrix, facts_series, required_version)
       IN IF verdict = "blocked"
          THEN /\ blocked_items' = Append(blocked_items,
                     [component |-> s_tensorrt,
                      message |-> <<"TensorRT major ">> \o required_major
                                  \o <<" is incompatible with ">> \o facts_series
                                  \o <<" expected major ">> \o expected_major \o <<".">>,
                      required |-> RequiredText(operator, required_version),
                      installed |-> <<"expected major ">> \o expected_major,
                      evidence |-> evidence])
               /\ alternatives' = Append(alternatives,
                     <<"Use TensorRT major ">> \o expected_major \o <<" for ">>
                     \o facts_series \o <<".">>)
               /\ AddAction(<<"Resolve TensorRT major mismatch.">>,
                            <<"echo \"Use TensorRT major ">> \o expected_major
                                \o <<" to match ">> \o facts_series \o <<".\"">>,
                            TRUE, "high",
                            <<"No state changed by this placeholder action.">>,
                            <<"echo \"Verify TensorRT major compatibility.\"">>)
               /\ UNCHANGED <<issues, ready_items>>
          ELSE /\ ready_items' = Append(ready_items,
                     [component |-> s_tensorrt,
                      required |-> RequiredText(operator, required_version),
                      installed |-> <<"compatible major for ">> \o facts_series])
               /\ NoAction
               /\ UNCHANGED <<issues, blocked_items, alternatives>>

KnownComponents ==
    {s_l4t, s_jetpack, s_cuda, s_python, s_ubuntu, s_pytorch, s_onnxruntime, s_tensorrt}

(* variant: an unknown component is treated as a blocker *)
ProcessUnknownComponent_AsBlocker(raw) ==
    /\ ReadConstraint(raw)
    /\ ComponentOf(raw) \notin KnownComponents
    /\ blocked_items' = Append(blocked_items,
           [component |-> ComponentOf(raw),
            message |-> <<"Unknown component '">> \o ComponentOf(raw)
                        \o <<"'. Manual review required.">>,
            required |-> RequiredText(OperatorOf(raw), VersionOf(raw)),
            installed |-> s_unknown,
            evidence |-> EvidenceOf(raw)])
    /\ alternatives' = Append(alternatives,
           <<"Manually map unknown component '">> \o ComponentOf(raw)
           \o <<"' to Jetson-compatible packages.">>)
    /\ NoAction
    /\ UNCHANGED <<issues, ready_items>>

(* variant: the unknown-component issue also emits an action *)
ProcessUnknownComponent_WithAction(raw) ==
    /\ ReadConstraint(raw)
    /\ ComponentOf(raw) \notin KnownComponents
    /\ issues' = Append(issues,
           [component |-> ComponentOf(raw),
            severity |-> "low",
            message |-> <<"Unknown component '">> \o ComponentOf(raw)
                        \o <<"'. Manual review required.">>,
            required |-> RequiredText(OperatorOf(raw), VersionOf(raw)),
            installed |-> s_unknown,
            evidence |-> EvidenceOf(raw)])
    /\ alternatives' = Append(alternatives,
           <<"Manually map unknown component '">> \o ComponentOf(raw)
           \o <<"' to Jetson-compatible packages.">>)
    /\ AddAction(<<"Map unknown component.">>, <<"echo \"Manual mapping required.\"">>,
                 FALSE, "low", <<"No state changed.">>, <<"echo \"Verify mapping.\"">>)
    /\ UNCHANGED <<blocked_items, ready_items>>

(* lines 499-508: no branch of the loop body matched *)
ProcessUnknownComponent(raw) ==
    /\ ReadConstraint(raw)
    /\ ComponentOf(raw) \notin KnownComponents
    /\ issues' = Append(issues,
           [component |-> ComponentOf(raw),
            severity |-> "low",
            message |-> <<"Unknown component '">> \o ComponentOf(raw)
                        \o <<"'. Manual review required.">>,
            required |-> RequiredText(OperatorOf(raw), VersionOf(raw)),
            installed |-> s_unknown,
            evidence |-> EvidenceOf(raw)])
    /\ alternatives' = Append(alternatives,
           <<"Manually map unknown component '">> \o ComponentOf(raw)
           \o <<"' to Jetson-compatible packages.">>)
    /\ NoAction
    /\ UNCHANGED <<blocked_items, ready_items>>

(* lines 510-527: the list is exhausted; dedup and aggregate *)
Finish ==
    /\ pc = "loop"
    /\ alternatives' = unique_strings(NonEmptyStrings(alternatives))
    /\ overall_status' = ComputeOverallStatus(blocked_items, issues)
    /\ pc' = "done"
    /\ UNCHANGED <<inputs, constraints, issues, blocked_items, ready_items,
                   recommended_actions, action_index>>
    /\ UNCHANGED <<call_vars, extract_vars, plan_vars>>

Next ==
    \/ HardwareCheck
    \/ \E raw \in ConstraintPool : ProcessL4t(raw)
    \/ \E raw \in ConstraintPool : ProcessJetpack(raw)
    \/ \E raw \in ConstraintPool : ProcessRangeBounded(raw)
    \/ \E raw \in ConstraintPool : ProcessTestedList(raw)
    \/ \E raw \in ConstraintPool : ProcessTensorrt(raw)
    \/ \E raw \in ConstraintPool : ProcessUnknownComponent(raw)
    \/ Finish

Spec == Init /\ [][Next]_vars

----------------------------------------------------------------------------
(* Vocabulary of the properties *)

(* this step is one iteration of the constraint loop *)
Processed == pc = "loop" /\ Len(constraints') = Len(constraints) + 1
LastRaw == constraints'[Len(constraints')]

(* new is old with exactly one element appended *)
GrewByOne(old, new) == Len(new) = Len(old) + 1 /\ SubSeq(new, 1, Len(old)) = old
Last(seq) == seq[Len(seq)]

OneBlocker == GrewByOne(blocked_items, blocked_items') /\ UNCHANGED <<issues, ready_items>>
OneIssue == GrewByOne(issues, issues') /\ UNCHANGED <<blocked_items, ready_items>>
OneReady == GrewByOne(ready_items, ready_items') /\ UNCHANGED <<issues, blocked_items>>
OneAction == GrewByOne(recommended_actions, recommended_actions')

VersionCheckedComponents ==
    {s_jetpack, s_cuda, s_python, s_ubuntu, s_pytorch, s_onnxruntime, s_tensorrt}

----------------------------------------------------------------------------
(* C1: when the analysis is written, overall_status is "blocked" iff
   blocked_items is non-empty; otherwise "needs-adjustments" iff issues is
   non-empty; otherwise "ready". *)
C1_OverallStatus ==
    pc = "done" =>
        /\ overall_status \in {"blocked", "needs-adjustments", "ready"}
        /\ overall_status = "blocked" <=> Len(blocked_items) > 0
        /\ overall_status = "needs-adjustments" <=> (Len(blocked_items) = 0 /\ Len(issues) > 0)
        /\ overall_status = "ready" <=> (Len(blocked_items) = 0 /\ Len(issues) = 0)

C1_Witness ==
    /\ pc = "done"
    /\ overall_status = "needs-adjustments"
    /\ Len(issues) > 0
    /\ Len(ready_items) > 0

(* C2: a constraint on a version-checked component whose installed version
   resolves to "unknown", or whose platform series is inferred as "unknown",
   yields an entry in issues and none in ready_items or blocked_items. *)
C2_UnknownIsAlwaysIssue ==
    [][ (/\ Processed
         /\ ComponentOf(LastRaw) \in VersionCheckedComponents
         /\ \/ get_installed_component_version(ComponentOf(LastRaw), facts) = s_unknown
            \/ facts_series = s_unknown)
        => OneIssue ]_vars

(* C3: a jetpack constraint whose version maps to a known series is judged
   against facts_series: with == it is a blocker exactly when the required
   series differs from facts_series, with >= exactly when the leading digit of
   facts_series is below that of the required series, otherwise it is ready;
   a blocker adds one high-risk action and facts_series is unchanged. *)
C3_JetpackAgainstFactsSeries ==
    [][ (/\ Processed
         /\ ComponentOf(LastRaw) = s_jetpack
         /\ major_to_series(VersionOf(LastRaw)) # s_unknown)
        => LET required_series == major_to_series(VersionOf(LastRaw))
               blocks ==
                   \/ /\ OperatorOf(LastRaw) = op_eq
                      /\ required_series # facts_series
                   \/ /\ OperatorOf(LastRaw) = op_ge
                      /\ version_tuple(FirstSegment(facts_series))[1]
                            < version_tuple(FirstSegment(required_series))[1]
           IN /\ facts_series' = facts_series
              /\ IF blocks
                 THEN /\ OneBlocker
                      /\ OneAction
                      /\ Last(recommended_actions').risk_level = "high"
                 ELSE OneReady /\ UNCHANGED recommended_actions ]_vars

(* C4: a cuda, python or ubuntu constraint with a known installed version is a
   blocker exactly when the matrix has a max for the installed series, the
   required version compares greater than it and the operator is ==, >= or >;
   otherwise ready exactly when satisfies(installed, operator, required);
   otherwise an issue. *)
C4_RangePrecedence ==
    [][ (/\ Processed
         /\ ComponentOf(LastRaw) \in {s_cuda, s_python, s_ubuntu}
         /\ get_installed_component_version(ComponentOf(LastRaw), facts) # s_unknown)
        => LET component == ComponentOf(LastRaw)
               installed == get_installed_component_version(component, facts)
               max_v == component_range(matrix, facts_series, component)[2]
               exceeds == /\ max_v # s_empty
                          /\ compare_versions(VersionOf(LastRaw), max_v) = 1
                          /\ OperatorOf(LastRaw) \in {op_eq, op_ge, op_gt}
               sat == satisfies(installed, OperatorOf(LastRaw), VersionOf(LastRaw))
           IN /\ exceeds => OneBlocker /\ Last(blocked_items').component = component
              /\ (~exceeds /\ sat) => OneReady /\ Last(ready_items').component = component
              /\ (~exceeds /\ ~sat) => OneIssue /\ Last(issues').component = component ]_vars

(* series 5.x inferred from the L4T release, installed CUDA 11.4, series max
   10.2: "cuda >= 11.0" is satisfied by the installed version and still blocked *)
C4_Witness ==
    /\ facts_series = s_5x
    /\ \E i \in 1..Len(blocked_items) :
          /\ blocked_items[i].component = s_cuda
          /\ blocked_items[i].installed = <<"1", "1", ".", "4">>
          /\ blocked_items[i].required = <<">", "=", " ", "1", "1", ".", "0">>
    /\ \E i \in 1..Len(issues) :
          /\ issues[i].component = s_cuda
          /\ issues[i].severity = "high"

(* C5: the action of an exceeds-series-max blocker has requires_sudo = TRUE
   for cuda and ubuntu and requires_sudo = FALSE for python. *)
C5_RangeBlockerSudo ==
    [][ (/\ Processed
         /\ ComponentOf(LastRaw) \in {s_cuda, s_python, s_ubuntu}
         /\ GrewByOne(blocked_items, blocked_items'))
        => /\ OneAction
           /\ Last(recommended_actions').requires_sudo
                 = (ComponentOf(LastRaw) \in {s_cuda, s_ubuntu}) ]_vars

(* C6: a cuda, python or ubuntu constraint whose installed version is
   "unknown" yields exactly one medium issue with the re-collect suggestion,
   no blocker and no action, whatever the matrix range says; without blockers
   the final overall_status is then "needs-adjustments". *)
IsUnknownInstalledIssue(issue) ==
    /\ issue.component \in {s_cuda, s_python, s_ubuntu}
    /\ issue.installed = s_unknown

C6_UnknownInstalled ==
    /\ [][ (/\ Processed
            /\ ComponentOf(LastRaw) \in {s_cuda, s_python, s_ubuntu}
            /\ get_installed_component_version(ComponentOf(LastRaw), facts) = s_unknown)
           => /\ OneIssue
              /\ Last(issues').severity = "medium"
              /\ Last(issues').component = ComponentOf(LastRaw)
              /\ alternatives' = Append(alternatives,
                     <<"Collect ">> \o ComponentOf(LastRaw)
                     \o <<" facts again and re-run compatibility analysis.">>)
              /\ UNCHANGED <<recommended_actions, action_index>> ]_vars
    /\ []((/\ pc = "done"
           /\ blocked_items = <<>>
           /\ \E i \in 1..Len(issues) : IsUnknownInstalledIssue(issues[i]))
          => overall_status = "needs-adjustments")

(* series 5.x with max 3.8 for python, python version missing from facts:
   "python == 3.12" is out of range and still only an issue *)
C6_Witness ==
    /\ pc = "done"
    /\ facts_series = s_5x
    /\ component_range(matrix, facts_series, s_python)[2] = <<"3", ".", "8">>
    /\ blocked_items = <<>>
    /\ recommended_actions = <<>>
    /\ overall_status = "needs-adjustments"
    /\ \E i \in 1..Len(issues) :
          /\ IsUnknownInstalledIssue(issues[i])
          /\ issues[i].component = s_python
          /\ issues[i].required = <<"=", "=", " ", "3", ".", "1", "2">>

(* kinds of issue the properties tell apart *)
IsUnknownComponentIssue(issue) == issue.component \notin KnownComponents
IsNoSupportMapIssue(issue) ==
    /\ issue.component \in {s_pytorch, s_onnxruntime}
    /\ issue.installed = s_unknown
IsHardwareBlocker(item) == item.component = s_hardware

CountIn(seq, P(_)) == Cardinality({i \in 1..Len(seq) : P(seq[i])})

(* C7 as stated: every blocker and every issue other than the unknown-component
   and unknown-installed-version ones has exactly one action, so the number of
   recommended_actions is |blocked_items| + the number of such issues. *)
C7_ActionPerBlockerAndIssue ==
    Len(recommended_actions)
        = Len(blocked_items)
          + CountIn(issues, LAMBDA x : ~IsUnknownComponentIssue(x) /\ ~IsUnknownInstalledIssue(x))

(* C7 amended: the hardware blocker and the no-support-map issue emit no action
   either; every other blocker and every other issue emits exactly one. *)
C7_ActionPerRemediableItem ==
    /\ [](Len(recommended_actions)
            = CountIn(blocked_items, LAMBDA x : ~IsHardwareBlocker(x))
              + CountIn(issues, LAMBDA x : /\ ~IsUnknownComponentIssue(x)
                                           /\ ~IsUnknownInstalledIssue(x)
                                           /\ ~IsNoSupportMapIssue(x)))
    /\ [][ Processed =>
             LET informational ==
                    /\ GrewByOne(issues, issues')
                    /\ \/ IsUnknownComponentIssue(Last(issues'))
                       \/ IsUnknownInstalledIssue(Last(issues'))
                       \/ IsNoSupportMapIssue(Last(issues'))
                 remediable ==
                    \/ GrewByOne(blocked_items, blocked_items')
                    \/ GrewByOne(issues, issues') /\ ~informational
             IN IF remediable THEN OneAction ELSE UNCHANGED recommended_actions ]_vars
    /\ [][ pc = "hardware" => UNCHANGED recommended_actions ]_vars

C7_Witness ==
    /\ \E i \in 1..Len(blocked_items) : IsHardwareBlocker(blocked_items[i])
    /\ \E i \in 1..Len(issues) : IsNoSupportMapIssue(issues[i])
    /\ Len(recommended_actions) = 1
    /\ Len(blocked_items) + Len(issues) = 3

(* C8: recommended_actions is append-only and its ids are action-001,
   action-002, ..., action-N in list order. *)
ExpectedActionId(i) ==
    <<"action-", DigitChars[((i \div 100) % 10) + 1],
                 DigitChars[((i \div 10) % 10) + 1],
                 DigitChars[(i % 10) + 1]>>

C8_SequentialActionIds ==
    /\ [](\A i \in 1..Len(recommended_actions) :
              recommended_actions[i].id = ExpectedActionId(i))
    /\ [][ /\ Len(recommended_actions') >= Len(recommended_actions)
           /\ SubSeq(recommended_actions', 1, Len(recommended_actions)) = recommended_actions
         ]_vars

C8_Witness ==
    /\ Len(recommended_actions) = 2
    /\ recommended_actions[1].id = <<"action-", "0", "0", "1">>
    /\ recommended_actions[2].id = <<"action-", "0", "0", "2">>
    /\ recommended_actions[1].summary # recommended_actions[2].summary

(* C9: with a non-empty supported list for the installed series, a pytorch or
   onnxruntime constraint is ready exactly when the first two dot-separated
   segments of the required version (the whole string without a dot) equal a
   supported entry or the required version starts with one, whatever the
   operator; otherwise it is a medium issue suggesting the last supported
   entry, with one medium-risk non-sudo action.  With an empty or missing
   list it is a medium issue. *)
FirstTwoSegments(v) ==
    LET parts == Split(v)
    IN IF Len(parts) = 1 THEN v
       ELSE parts[1] \o <<".">> \o parts[2]

C9_TestedList ==
    [][ (/\ Processed
         /\ ComponentOf(LastRaw) \in {s_pytorch, s_onnxruntime})
        => LET component == ComponentOf(LastRaw)
               required == VersionOf(LastRaw)
               supported == Get(Get(Get(matrix, "component_support", EmptyDict),
                                    component, EmptyDict), facts_series, <<>>)
               matches == \E i \in 1..Len(supported) :
                             \/ FirstTwoSegments(required) = supported[i]
                             \/ /\ Len(supported[i]) <= Len(required)
                                /\ \A k \in 1..Len(supported[i]) : required[k] = supported[i][k]
           IN IF Len(supported) = 0
              THEN OneIssue /\ Last(issues').severity = "medium"
              ELSE IF matches
              THEN OneReady /\ UNCHANGED <<recommended_actions, alternatives>>
              ELSE /\ OneIssue
                   /\ Last(issues').severity = "medium"
                   /\ Last(issues').suggestion
                         = <<"Pin ">> \o component \o <<" to ">> \o supported[Len(supported)]
                           \o <<" for ">> \o facts_series \o <<".">>
                   /\ OneAction
                   /\ Last(recommended_actions').risk_level = "medium"
                   /\ Last(recommended_actions').requires_sudo = FALSE ]_vars

(* supported list 1.13, 2.0, 2.1 for series 5.x: "pytorch >= 2.1" is ready,
   "pytorch == 1.8" is an issue pinned to 2.1 *)
C9_Witness ==
    /\ facts_series = s_5x
    /\ \E i \in 1..Len(ready_items) :
          /\ ready_items[i].component = s_pytorch
          /\ ready_items[i].required = <<">", "=", " ", "2", ".", "1">>
    /\ \E i \in 1..Len(issues) :
          /\ issues[i].component = s_pytorch
          /\ "suggestion" \in DOMAIN issues[i]
          /\ issues[i].suggestion
                = <<"Pin ", "p", "y", "t", "o", "r", "c", "h", " to ", "2", ".", "1",
                    " for ", "5", ".", "x", ".">>
    /\ Len(recommended_actions) = 1

(* C10: a tensorrt constraint is a blocker exactly when the matrix gives an
   expected major for the installed series and the text of the required
   version before its first dot differs from it; the blocker adds one
   high-risk sudo action; otherwise the constraint is ready. *)
C10_TensorrtMajor ==
    [][ (/\ Processed
         /\ ComponentOf(LastRaw) = s_tensorrt)
        => LET expected == Get(Get(Get(matrix, "jetpack_series", EmptyDict),
                                   facts_series, EmptyDict), s_tensorrt_major, s_empty)
               required_major == Split(VersionOf(LastRaw))[1]
           IN IF expected # s_empty /\ required_major # expected
              THEN /\ OneBlocker
                   /\ Last(blocked_items').component = s_tensorrt
                   /\ OneAction
                   /\ Last(recommended_actions').risk_level = "high"
                   /\ Last(recommended_actions').requires_sudo = TRUE
              ELSE /\ OneReady
                   /\ Last(ready_items').component = s_tensorrt
                   /\ UNCHANGED recommended_actions ]_vars

(* series 6.x expects major 10: "tensorrt >= 8.5" is blocked, "tensorrt == 10" is ready *)
C10_Witness ==
    /\ facts_series = s_6x
    /\ \E i \in 1..Len(blocked_items) :
          /\ blocked_items[i].component = s_tensorrt
          /\ blocked_items[i].required = <<">", "=", " ", "8", ".", "5">>
    /\ \E i \in 1..Len(ready_items) :
          /\ ready_items[i].component = s_tensorrt
          /\ ready_items[i].required = <<"=", "=", " ", "1", "0">>
    /\ Len(recommended_actions) = 1
    /\ recommended_actions[1].requires_sudo

(* C11: a constraint whose normalized component is none of l4t, jetpack, cuda,
   python, ubuntu, pytorch, onnxruntime, tensorrt yields exactly one
   low-severity issue and adds nothing to blocked_items, ready_items or
   recommended_actions. *)
C11_UnknownComponent ==
    [][ (/\ Processed
         /\ \A name \in {s_l4t, s_jetpack, s_cuda, s_python, s_ubuntu,
                         s_pytorch, s_onnxruntime, s_tensorrt} :
                RemoveSpaces(Lower(Get(LastRaw, "component", s_empty))) # name)
        => /\ OneIssue
           /\ Last(issues').severity = "low"
           /\ UNCHANGED <<recommended_actions, action_index>> ]_vars

(* "OpenCV" with no operator given: one low issue for "opencv", next to a ready item *)
C11_Witness ==
    /\ Len(constraints) = 2
    /\ Len(issues) = 1
    /\ issues[1].component = <<"o", "p", "e", "n", "c", "v">>
    /\ issues[1].severity = "low"
    /\ issues[1].required = <<"=", "=", " ", "4", ".", "5">>
    /\ Len(ready_items) = 1
    /\ blocked_items = <<>>
    /\ recommended_actions = <<>>

(* C12: hardware is judged once, before the loop: when the hardware
   requirements name a known model and the installed model contains none of
   the named ones there is exactly one hardware blocker; when it contains one
   there is exactly one hardware ready item; when no known model is named no
   list has a hardware entry. *)
NamedModels ==
    {k \in 1..Len(known_models) :
        \E i \in 1..Len(Get(requirements, "hardware_requirements", <<>>)) :
            Contains(Lower(Get(requirements, "hardware_requirements", <<>>)[i]), known_models[k])}

InstalledModelMatches ==
    \E k \in NamedModels : Contains(Lower(facts_model), known_models[k])

IsHardwareItem(item) == item.component = s_hardware

HardwareCounts(blocked, ready, iss) ==
    <<CountIn(blocked, IsHardwareItem), CountIn(ready, IsHardwareItem),
      CountIn(iss, IsHardwareItem)>>

C12_HardwareOnce ==
    /\ [](pc = "hardware" => HardwareCounts(blocked_items, ready_items, issues) = <<0, 0, 0>>)
    /\ [][ IF pc = "hardware"
           THEN HardwareCounts(blocked_items', ready_items', issues')
                   = (IF NamedModels = {} THEN <<0, 0, 0>>
                      ELSE IF InstalledModelMatches THEN <<0, 1, 0>>
                      ELSE <<1, 0, 0>>)
           ELSE HardwareCounts(blocked_items', ready_items', issues')
                   = HardwareCounts(blocked_items, ready_items, issues) ]_vars

(* "Jetson Nano or Jetson TX2" names two models and the device is a Jetson
   Nano: one hardware ready item, still one after two constraints *)
C12_Witness ==
    /\ pc = "done"
    /\ Len(constraints) = 2
    /\ Cardinality(NamedModels) = 2
    /\ InstalledModelMatches
    /\ CountIn(ready_items, IsHardwareItem) = 1
    /\ ready_items[1].required
          = << <<"j", "e", "t", "s", "o", "n", " ", "n", "a", "n", "o">>,
               <<"j", "e", "t", "s", "o", "n", " ", "t", "x", "2">> >>

(* C13: the alternatives written out have no duplicate and no empty string and
   are the non-empty suggestions appended during the run, in first-seen
   order. *)
FirstIndex(seq, x) == CHOOSE i \in 1..Len(seq) : seq[i] = x /\ \A j \in 1..(i - 1) : seq[j] # x

IsFirstSeenDedup(in, out) ==
    /\ \A j \in 1..Len(out) : out[j] # <<>> /\ \E i \in 1..Len(in) : in[i] = out[j]
    /\ \A i \in 1..Len(in) : in[i] # <<>> => \E j \in 1..Len(out) : out[j] = in[i]
    /\ \A j, k \in 1..Len(out) :
          j < k => out[j] # out[k] /\ FirstIndex(in, out[j]) < FirstIndex(in, out[k])

C13_AlternativesDedup ==
    /\ [][ (pc = "loop" /\ pc' = "done") => IsFirstSeenDedup(alternatives, alternatives') ]_vars
    /\ [](pc = "done" =>
            /\ \A j \in 1..Len(alternatives) : alternatives[j] # <<>>
            /\ \A j, k \in 1..Len(alternatives) : j # k => alternatives[j] # alternatives[k])

(* a hardware blocker and two jetpack blockers: three suggestions appended, the
   jetpack one twice, two written out with the hardware one first *)
C13_Witness ==
    /\ pc = "done"
    /\ Len(blocked_items) = 3
    /\ Len(alternatives) = 2
    /\ alternatives[1] = <<"Use a tutorial that targets the current Jetson model, or switch hardware.">>

(* C18: every version constraint contributes exactly one entry to exactly one
   of ready_items, issues, blocked_items, so the three lengths add up to the
   number of constraints, plus one when a known hardware model is named; each
   list keeps the order of the constraints its entries come from. *)
C18_OneEntryPerConstraint ==
    /\ [][ Processed =>
             /\ \/ OneBlocker /\ Last(blocked_items').required
                                    = RequiredText(OperatorOf(LastRaw), VersionOf(LastRaw))
                \/ OneIssue /\ Last(issues').required
                                  = RequiredText(OperatorOf(LastRaw), VersionOf(LastRaw))
                \/ OneReady /\ Last(ready_items').required
                                  = RequiredText(OperatorOf(LastRaw), VersionOf(LastRaw)) ]_vars
    /\ [][ (pc = "loop" /\ ~Processed) => UNCHANGED <<ready_items, issues, blocked_items>> ]_vars
    /\ [][ pc' = "done" =>
             Len(ready_items') + Len(issues') + Len(blocked_items')
                = Len(constraints') + (IF NamedModels = {} THEN 0 ELSE 1) ]_vars

(* a hardware blocker, then one ready and one issue from two constraints *)
C18_Witness ==
    /\ pc = "done"
    /\ Len(constraints) = 2
    /\ Len(blocked_items) = 1
    /\ IsHardwareItem(blocked_items[1])
    /\ Len(ready_items) = 1
    /\ ready_items[1].required
          = RequiredText(Get(constraints[1], "operator", op_eq), constraints[1].version)
    /\ Len(issues) = 1
    /\ issues[1].required
          = RequiredText(Get(constraints[2], "operator", op_eq), constraints[2].version)

----------------------------------------------------------------------------
(* Single calls of the version comparator *)

VersionStrings ==
    { s_empty, <<"0">>, <<"6">>, <<"6", ".", "0">>, <<"6", ".", "0", ".", "0">>, <<"5", ".", "x">>, s_unknown,
      <<"3", ".", "8">>, <<"3", ".", "1", "0">>, <<"3", ".", "1", "0", ".", "6">>, <<"1", "0", ".", "2">>, <<"9">>, <<"R", "3", "5", ".", "4">> }

InitCompare ==
    /\ MainIdle /\ ExtractIdle /\ PlanIdle
    /\ \E left \in VersionStrings, right \in VersionStrings :
          call = [fn |-> "compare_versions", left |-> left, right |-> right, done |-> FALSE]

(* compare_versions called on the pair, on the swapped pair, on the pair with
   ".0" appended to one side, and with "0" in place of the left argument *)
CallCompareVersions ==
    /\ call.fn = "compare_versions"
    /\ ~call.done
    /\ call' = [fn |-> "compare_versions", left |-> call.left, right |-> call.right,
                done |-> TRUE,
                result |-> compare_versions(call.left, call.right),
                swapped |-> compare_versions(call.right, call.left),
                self |-> compare_versions(call.left, call.left),
                left_padded |-> compare_versions(call.left \o <<".", "0">>, call.right),
                right_padded |-> compare_versions(call.left, call.right \o <<".", "0", ".", "0">>),
                zero_for_left |-> compare_versions(<<"0">>, call.right)]
    /\ UNCHANGED <<main_vars, extract_vars, plan_vars>>

NextCompare == CallCompareVersions

SpecCompare == InitCompare /\ [][NextCompare]_vars

(* C14: compare_versions is a total order on numeric tuples:
   compare_versions(a, a) = 0, compare_versions(a, b) = -compare_versions(b, a),
   trailing zero components appended to either argument do not change the
   result, and a string without digits behaves as [0]. *)
HasNoDigit(v) == \A i \in 1..Len(v) : v[i] \notin {"0", "1", "2", "3", "4", "5", "6", "7", "8", "9"}

C14_CompareVersionsOrder ==
    (call.fn = "compare_versions" /\ call.done) =>
        /\ call.result \in {-1, 0, 1}
        /\ call.self = 0
        /\ call.result = 0 - call.swapped
        /\ call.left_padded = call.result
        /\ call.right_padded = call.result
        /\ HasNoDigit(call.left) => call.result = call.zero_for_left

(* "6" against "6.0.0": equal, both ways *)
C14_Witness ==
    /\ call.fn = "compare_versions"
    /\ call.done
    /\ call.left = <<"6">>
    /\ call.right = <<"6", ".", "0", ".", "0">>
    /\ call.result = 0
    /\ call.swapped = 0

----------------------------------------------------------------------------
(* Single calls of satisfies *)

Operators == {op_eq, op_ge, op_le, op_gt, op_lt, op_compat, <<"!", "=">>, s_empty}

SatisfiesVersions == { <<"6">>, <<"6", ".", "0", ".", "0">>, s_unknown, <<"3", ".", "8">>, <<"3", ".", "1", "0">>, <<"3", ".", "1", "0", ".", "6">> }

InitSatisfies ==
    /\ MainIdle /\ ExtractIdle /\ PlanIdle
    /\ \E installed \in SatisfiesVersions, operator \in Operators, required \in SatisfiesVersions :
          call = [fn |-> "satisfies", installed |-> installed, operator |-> operator,
                  required |-> required, done |-> FALSE]

(* satisfies called with the operator given, with ">=" and with ">" *)
CallSatisfies ==
    /\ call.fn = "satisfies"
    /\ ~call.done
    /\ call' = [fn |-> "satisfies", installed |-> call.installed, operator |-> call.operator,
                required |-> call.required, done |-> TRUE,
                result |-> satisfies(call.installed, call.operator, call.required),
                ge |-> satisfies(call.installed, op_ge, call.required),
                gt |-> satisfies(call.installed, op_gt, call.required),
                cmp_value |-> compare_versions(call.installed, call.required)]
    /\ UNCHANGED <<main_vars, extract_vars, plan_vars>>

NextSatisfies == CallSatisfies

SpecSatisfies == InitSatisfies /\ [][NextSatisfies]_vars

(* C15: satisfies is the comparator result mapped through the operator: ==, >=,
   <=, >, < are the corresponding relations, ~= gives what >= gives, any other
   operator gives FALSE; so when satisfies(v, ">=", r) holds, satisfies(v, ">", r)
   fails only when v and r compare equal. *)
C15_SatisfiesMapping ==
    (call.fn = "satisfies" /\ call.done) =>
        /\ call.operator = <<"=", "=">> => (call.result <=> call.cmp_value = 0)
        /\ call.operator = <<">", "=">> => (call.result <=> call.cmp_value \in {0, 1})
        /\ call.operator = <<"<", "=">> => (call.result <=> call.cmp_value \in {-1, 0})
        /\ call.operator = <<">">> => (call.result <=> call.cmp_value = 1)
        /\ call.operator = <<"<">> => (call.result <=> call.cmp_value = -1)
        /\ call.operator = <<"~", "=">> => (call.result <=> call.ge)
        /\ call.operator \notin {<<"=", "=">>, <<">", "=">>, <<"<", "=">>, <<">">>, <<"<">>,
                                 <<"~", "=">>} => ~call.result
        /\ (call.ge /\ ~call.gt) => call.cmp_value = 0

(* 3.10.6 ~= 3.8 holds although the two are not equal *)
C15_Witness ==
    /\ call.fn = "satisfies"
    /\ call.done
    /\ call.operator = <<"~", "=">>
    /\ call.installed = <<"3", ".", "1", "0", ".", "6">>
    /\ call.required = <<"3", ".", "8">>
    /\ call.result
    /\ call.cmp_value = 1

----------------------------------------------------------------------------
(* Single calls of infer_jetpack_series *)

JetpackSections ==
    LET SeriesValues == {s_5x, s_6x, <<" ", "6", ".", "x", " ">>, <<"7", ".", "x">>, s_empty}
        InstalledVersionValues == {<<"5", ".", "1">>, <<"6", ".", "0">>, <<"4", ".", "6">>}
    IN {EmptyDict}
       \cup {[k \in {"series"} |-> s] : s \in SeriesValues}
       \cup {[k \in {"installed_version"} |-> v] : v \in InstalledVersionValues}
       \cup {[series |-> s, installed_version |-> v] :
                s \in SeriesValues, v \in InstalledVersionValues}

L4tSections ==
    LET ReleaseValues == {<<"R", "3", "5", ".", "4">>, <<"R", "3", "6", ".", "3">>, <<"R", "3", "2", ".", "7">>}
    IN {EmptyDict} \cup {[k \in {"release"} |-> r] : r \in ReleaseValues}

InferFactsSet == {EmptyDict} \cup {[jetpack |-> j, l4t |-> l] : j \in JetpackSections, l \in L4tSections}

InitInfer ==
    /\ MainIdle /\ ExtractIdle /\ PlanIdle
    /\ \E f \in InferFactsSet :
          call = [fn |-> "infer_jetpack_series", facts |-> f, done |-> FALSE]

CallInferJetpackSeries ==
    /\ call.fn = "infer_jetpack_series"
    /\ ~call.done
    /\ call' = [fn |-> "infer_jetpack_series", facts |-> call.facts, done |-> TRUE,
                result |-> infer_jetpack_series(call.facts)]
    /\ UNCHANGED <<main_vars, extract_vars, plan_vars>>

NextInfer == CallInferJetpackSeries

SpecInfer == InitInfer /\ [][NextInfer]_vars

(* the three fields the inference reads, as given in the facts *)
GivenSeries == Get(Get(call.facts, "jetpack", EmptyDict), "series", s_empty)
GivenInstalledVersion == Get(Get(call.facts, "jetpack", EmptyDict), "installed_version", s_empty)
GivenRelease == Get(Get(call.facts, "l4t", EmptyDict), "release", s_empty)

FromInstalledOrRelease ==
    IF GivenInstalledVersion # <<>> /\ GivenInstalledVersion[1] = "5" THEN s_5x
    ELSE IF GivenInstalledVersion # <<>> /\ GivenInstalledVersion[1] = "6" THEN s_6x
    ELSE IF Len(GivenRelease) >= 3 /\ SubSeq(GivenRelease, 1, 3) = <<"R", "3", "5">> THEN s_5x
    ELSE IF Len(GivenRelease) >= 3 /\ SubSeq(GivenRelease, 1, 3) = <<"R", "3", "6">> THEN s_6x
    ELSE s_unknown

(* C16 as stated: a series field equal to "5.x" or "6.x" is returned whatever
   the other two fields say; otherwise an installed_version starting with 5 or
   6 decides; otherwise an l4t release prefixed R35 or R36 decides; otherwise
   the result is "unknown". *)
C16_PriorityChainLiteral ==
    (call.fn = "infer_jetpack_series" /\ call.done) =>
        /\ call.result \in {s_5x, s_6x, s_unknown}
        /\ call.result = IF GivenSeries \in {s_5x, s_6x} THEN GivenSeries
                         ELSE FromInstalledOrRelease

(* C16 (amended): a series field that is "5.x" or "6.x" once surrounding
   whitespace is stripped is returned, stripped, whatever the other two fields
   say; otherwise an installed_version starting with 5 or 6 decides; otherwise
   an l4t release prefixed R35 or R36 decides; otherwise the result is
   "unknown".  The result is always one of "5.x", "6.x", "unknown". *)
C16_PriorityChain ==
    (call.fn = "infer_jetpack_series" /\ call.done) =>
        /\ call.result \in {s_5x, s_6x, s_unknown}
        /\ call.result = IF Strip(GivenSeries) \in {s_5x, s_6x} THEN Strip(GivenSeries)
                         ELSE FromInstalledOrRelease

(* series " 6.x " beside installed_version 5.1 and release R35.4: "6.x" *)
C16_Witness ==
    /\ call.fn = "infer_jetpack_series"
    /\ call.done
    /\ GivenSeries = <<" ", "6", ".", "x", " ">>
    /\ GivenInstalledVersion = <<"5", ".", "1">>
    /\ GivenRelease = <<"R", "3", "5", ".", "4">>
    /\ call.result = s_6x

----------------------------------------------------------------------------
(* extract_tutorial_requirements.py: extract_constraints *)

MaxLines == 2

(* the characters of the inputs in code-point order: Python compares strings
   by code point *)
CodePointOrder ==
    <<" ", "!", ".", "0", "1", "2", "3", "4", "5", "6", "7", "8", "9",
      "<", "=", ">", "A", "B", "C", "D", "E", "F", "G", "H", "I", "J",
      "K", "L", "M", "N", "O", "P", "Q", "R", "S", "T", "U", "V", "W",
      "X", "Y", "Z", "_", "a", "b", "c", "d", "e", "f", "g", "h", "i",
      "j", "k", "l", "m", "n", "o", "p", "q", "r", "s", "t", "u", "v",
      "w", "x", "y", "z", "~">>

CodePointRank(c) == CHOOSE i \in 1..Len(CodePointOrder) : CodePointOrder[i] = c

(* a < b on str *)
RECURSIVE StrLess(_, _)
StrLess(a, b) ==
    IF a = <<>> \/ b = <<>> THEN Len(a) < Len(b)
    ELSE IF Head(a) # Head(b) THEN CodePointRank(Head(a)) < CodePointRank(Head(b))
    ELSE StrLess(Tail(a), Tail(b))

(* a < b on tuples of str *)
RECURSIVE TupleLess(_, _)
TupleLess(a, b) ==
    IF a = <<>> \/ b = <<>> THEN Len(a) < Len(b)
    ELSE IF Head(a) # Head(b) THEN StrLess(Head(a), Head(b))
    ELSE TupleLess(Tail(a), Tail(b))

(* re.sub(r"\s+", " ", s) *)
RECURSIVE CollapseSpaces(_)
CollapseSpaces(s) ==
    IF s = <<>> THEN <<>>
    ELSE IF Head(s) = " " /\ Tail(s) # <<>> /\ Head(Tail(s)) = " " THEN CollapseSpaces(Tail(s))
    ELSE <<Head(s)>> \o CollapseSpaces(Tail(s))

COMPONENT_ALIASES ==
    [k \in {<<"o", "n", "n", "x", " ", "r", "u", "n", "t", "i", "m", "e">>} |-> s_onnxruntime]

canonical_component(raw_component) ==
    LET normalized == Strip(CollapseSpaces(Lower(raw_component)))
    IN Get(COMPONENT_ALIASES, normalized, normalized)

(* A line and what CONSTRAINT_RE.finditer yields on it, left to right: group 1
   (the component as written), group 2 (the operator, <<>> for None) and
   group 3 (the version). *)
Line1 ==
    [text |-> <<"I", "n", "s", "t", "a", "l", "l", " ", "t", "h", "e", " ", "S", "D", "K", " ", "f", "i", "r", "s", "t">>,
     matches |-> <<>>]

Line2 ==
    [text |-> <<"C", "U", "D", "A", " ", ">", "=", " ", "1", "1", ".", "4", " ", "c", "u", "d", "a", ">", "=", "1", "1", ".", "4">>,
     matches |-> <<[g1 |-> <<"C", "U", "D", "A">>, g2 |-> <<">", "=">>, g3 |-> <<"1", "1", ".", "4">>],
                   [g1 |-> <<"c", "u", "d", "a">>, g2 |-> <<">", "=">>, g3 |-> <<"1", "1", ".", "4">>]>>]

Line3 ==
    [text |-> <<"P", "y", "t", "h", "o", "n", " ", "3", ".", "8">>,
     matches |-> <<[g1 |-> <<"P", "y", "t", "h", "o", "n">>, g2 |-> <<>>, g3 |-> <<"3", ".", "8">>]>>]

Line4 ==
    [text |-> <<"p", "y", "t", "h", "o", "n", "=", "=", "3", ".", "8">>,
     matches |-> <<[g1 |-> <<"p", "y", "t", "h", "o", "n">>, g2 |-> <<"=", "=">>, g3 |-> <<"3", ".", "8">>]>>]

Line5 ==
    [text |-> <<"P", "y", "T", "o", "r", "c", "h", " ", "2", ".", "1", " ", "O", "N", "N", "X", " ", "R", "u", "n", "t", "i", "m", "e", " ", "1", ".", "1", "6">>,
     matches |-> <<[g1 |-> <<"P", "y", "T", "o", "r", "c", "h">>, g2 |-> <<>>, g3 |-> <<"2", ".", "1">>],
                   [g1 |-> <<"O", "N", "N", "X", " ", "R", "u", "n", "t", "i", "m", "e">>, g2 |-> <<>>, g3 |-> <<"1", ".", "1", "6">>]>>]

Line6 ==
    [text |-> <<"J", "e", "t", "P", "a", "c", "k", " ", "6", ".", "x">>,
     matches |-> <<[g1 |-> <<"J", "e", "t", "P", "a", "c", "k">>, g2 |-> <<>>, g3 |-> <<"6">>]>>]

Line7 ==
    [text |-> <<"c", "u", "d", "a", " ", ">", "=", " ", "1", "1", " ", "c", "u", "d", "a", " ", "=", "=", " ", "1", "1", ".", "4", " ", "c", "u", "d", "a", " ", ">", " ", "1", "1">>,
     matches |-> <<[g1 |-> <<"c", "u", "d", "a">>, g2 |-> <<">", "=">>, g3 |-> <<"1", "1">>],
                   [g1 |-> <<"c", "u", "d", "a">>, g2 |-> <<"=", "=">>, g3 |-> <<"1", "1", ".", "4">>],
                   [g1 |-> <<"c", "u", "d", "a">>, g2 |-> <<">">>, g3 |-> <<"1", "1">>]>>]

Line8 ==
    [text |-> <<"T", "e", "n", "s", "o", "r", "R", "T", " ", "8", ".", "5", " ", "t", "e", "n", "s", "o", "r", "r", "t", " ", "1", "0">>,
     matches |-> <<[g1 |-> <<"T", "e", "n", "s", "o", "r", "R", "T">>, g2 |-> <<>>, g3 |-> <<"8", ".", "5">>],
                   [g1 |-> <<"t", "e", "n", "s", "o", "r", "r", "t">>, g2 |-> <<>>, g3 |-> <<"1", "0">>]>>]

LinePool == {Line1, Line2, Line3, Line4, Line5, Line6, Line7, Line8}

InitExtract ==
    /\ MainIdle /\ CallIdle /\ PlanIdle
    /\ ec_pc = "scan"
    /\ ec_lines \in UNION {[1..n -> LinePool] : n \in 0..MaxLines}
    /\ ec_pos = <<0, 1>>
    /\ ec_seen = {}
    /\ ec_constraints = <<>>

(* the inner loop has no match left on the current line (or no line is
   current yet) *)
MatchesExhausted ==
    IF ec_pos[1] = 0 THEN TRUE
    ELSE ec_pos[2] > Len(ec_lines[ec_pos[1]].matches)

(* for line in lines *)
ExtractNextLine ==
    /\ ec_pc = "scan"
    /\ MatchesExhausted
    /\ ec_pos[1] < Len(ec_lines)
    /\ ec_pos' = <<ec_pos[1] + 1, 1>>
    /\ UNCHANGED <<ec_pc, ec_lines, ec_seen, ec_constraints>>
    /\ UNCHANGED <<main_vars, call_vars, plan_vars>>

(* body of: for match in CONSTRAINT_RE.finditer(line) *)
ExtractMatch ==
    /\ ec_pc = "scan"
    /\ ~MatchesExhausted
    /\ LET line == ec_lines[ec_pos[1]]
           match == line.matches[ec_pos[2]]
           component == canonical_component(match.g1)
           operator == IF match.g2 # <<>> THEN match.g2 ELSE op_eq
           version == match.g3
           key == <<component, operator, version, line.text>>
       IN IF key \in ec_seen
          THEN UNCHANGED <<ec_seen, ec_constraints>>
          ELSE /\ ec_seen' = ec_seen \cup {key}
               /\ ec_constraints' = Append(ec_constraints,
                                           [component |-> component, operator |-> operator,
                                            version |-> version, evidence |-> line.text])
    /\ ec_pos' = <<ec_pos[1], ec_pos[2] + 1>>
    /\ UNCHANGED <<ec_pc, ec_lines>>
    /\ UNCHANGED <<main_vars, call_vars, plan_vars>>

(* variant: the sort key lists the fields in the order of the seen key *)
SortKey_SeenOrder(c) == <<c.component, c.operator, c.version, c.evidence>>

(* key=lambda c: (c.component, c.version, c.operator, c.evidence) *)
SortKey(c) == <<c.component, c.version, c.operator, c.evidence>>

(* list.sort(key=...): stable, ascending *)
RECURSIVE SortedInsert(_, _)
SortedInsert(sorted, c) ==
    IF sorted = <<>> THEN <<c>>
    ELSE IF TupleLess(SortKey(c), SortKey(Head(sorted))) THEN <<c>> \o sorted
    ELSE <<Head(sorted)>> \o SortedInsert(Tail(sorted), c)

RECURSIVE SortConstraints(_)
SortConstraints(cs) ==
    IF cs = <<>> THEN <<>>
    ELSE SortedInsert(SortConstraints(SubSeq(cs, 1, Len(cs) - 1)), cs[Len(cs)])

(* the loops are over: constraints.sort(...); return constraints *)
ExtractReturn ==
    /\ ec_pc = "scan"
    /\ MatchesExhausted
    /\ ec_pos[1] = Len(ec_lines)
    /\ ec_constraints' = SortConstraints(ec_constraints)
    /\ ec_pc' = "done"
    /\ UNCHANGED <<ec_lines, ec_pos, ec_seen>>
    /\ UNCHANGED <<main_vars, call_vars, plan_vars>>

NextExtract == ExtractNextLine \/ ExtractMatch \/ ExtractReturn

SpecExtract == InitExtract /\ [][NextExtract]_vars

(* C17: the list extract_constraints returns is sorted ascending by
   (component, version, operator, evidence) and holds no two entries with the
   same (component, operator, version, evidence). *)
EntryBefore(a, b) ==
    \/ StrLess(a.component, b.component)
    \/ /\ a.component = b.component
       /\ \/ StrLess(a.version, b.version)
          \/ /\ a.version = b.version
             /\ \/ StrLess(a.operator, b.operator)
                \/ /\ a.operator = b.operator
                   /\ StrLess(a.evidence, b.evidence)

C17_SortedAndUnique ==
    ec_pc = "done" =>
        \A i \in 1..Len(ec_constraints), j \in 1..Len(ec_constraints) :
            i < j => EntryBefore(ec_constraints[i], ec_constraints[j])

(* "cuda >= 11 cuda == 11.4 cuda > 11" after "CUDA >= 11.4 cuda>=11.4": the
   second CUDA match was dropped and the four entries were reordered *)
C17_Witness ==
    /\ ec_pc = "done"
    /\ Len(ec_lines) = 2
    /\ ec_lines[1] = Line2
    /\ ec_lines[2] = Line7
    /\ Len(ec_constraints) = 4
    /\ ec_constraints[1].operator = <<">">>
    /\ ec_constraints[2].operator = <<">", "=">>
    /\ ec_constraints[2].version = <<"1", "1">>
    /\ ec_constraints[3].operator = <<"=", "=">>
    /\ ec_constraints[4].evidence = Line2.text

----------------------------------------------------------------------------
(* generate_deploy_plan.py.  The analysis is the parsed JSON file: a JSON
   value whose Python type matters to the code is written as its JSON token
   ("true", "false", "null", "1"); texts are sequences of chunks. *)

MaxActions == 2

(* bool(v) for the JSON value written as token *)
PyBool(token) == token \notin {"false", "null", "0", "\"\""}

StepId(n) == <<"step-">> \o Format03d(n)

build_preflight_step(step_id) ==
    [id |-> step_id,
     command |-> <<"echo \"Review available disk, memory, and network connectivity before deployment.\"">>,
     requires_sudo |-> FALSE,
     risk_level |-> <<"low">>,
     rollback_hint |-> <<"No rollback needed for preflight review.">>,
     verify_command |-> <<"echo \"Preflight checklist reviewed.\"">>]

ensure_step_shape(step) ==
    [id |-> Get(step, "id", <<>>),
     command |-> Get(step, "command", <<"echo \"No command provided\"">>),
     requires_sudo |-> PyBool(Get(step, "requires_sudo", "false")),
     risk_level |-> Get(step, "risk_level", <<"medium">>),
     rollback_hint |-> Get(step, "rollback_hint", <<"Document rollback before execution.">>),
     verify_command |-> Get(step, "verify_command", <<"echo \"No verify command provided\"">>)]

action_blocked ==
    [id |-> <<"action-blocked">>,
     summary |-> <<"Deployment is blocked by compatibility checks.">>,
     command |-> <<"echo \"Deployment blocked. Review analysis alternatives and blockers.\"">>,
     requires_sudo |-> "false",
     risk_level |-> <<"high">>,
     rollback_hint |-> <<"No system changes have been made.">>,
     verify_command |-> <<"echo \"Blockers acknowledged.\"">>]

action_ready ==
    [id |-> <<"action-ready">>,
     summary |-> <<"No compatibility actions are required.">>,
     command |-> <<"echo \"Compatibility check passed. Continue with project-specific install commands.\"">>,
     requires_sudo |-> "false",
     risk_level |-> <<"low">>,
     rollback_hint |-> <<"No rollback needed.">>,
     verify_command |-> <<"echo \"Compatibility-ready state confirmed.\"">>]

(* recommended actions as analyze_compatibility.py writes them, and entries a
   hand-edited analysis file can hold *)
action_tensorrt ==
    [id |-> <<"action-001">>,
     summary |-> <<"Align TensorRT major version with JetPack.">>,
     command |-> <<"echo \"Use TensorRT major ", "8", " to match ", "5", ".", "x", ".\"">>,
     requires_sudo |-> "true",
     risk_level |-> <<"high">>,
     rollback_hint |-> <<"Restore previous TensorRT package set.">>,
     verify_command |-> <<"echo \"Verify TensorRT major compatibility.\"">>]

action_pytorch ==
    [id |-> <<"action-002">>,
     summary |-> <<"Pin pytorch to a tested version.">>,
     command |-> <<"python3 -m pip install 'pytorch==", "2", ".", "1", "'">>,
     requires_sudo |-> "false",
     risk_level |-> <<"medium">>,
     rollback_hint |-> <<"Reinstall the previous package version.">>,
     verify_command |-> <<"python3 -c 'import torch'">>]

action_apt ==
    [id |-> <<"action-003">>,
     command |-> <<"sudo apt-get install -y python3-pip">>,
     requires_sudo |-> "1",
     risk_level |-> <<"low">>]

action_null_sudo ==
    [command |-> <<"python3 --version">>,
     requires_sudo |-> "null",
     risk_level |-> <<"low">>]

ActionPool == {action_tensorrt, action_pytorch, action_apt, action_null_sudo, EmptyDict}

(* the value of "recommended_actions": a JSON array, or something else *)
RecommendedActionsValues ==
    {[type |-> "array", items |-> l] : l \in UNION {[1..n -> ActionPool] : n \in 0..MaxActions}}
    \cup {[type |-> "null", items |-> <<>>]}

AnalysisSet ==
    {[recommended_actions |-> r, overall_status |-> s] :
        r \in RecommendedActionsValues, s \in {"blocked", "ready"}}
    \cup {[k \in {"recommended_actions"} |-> r] : r \in RecommendedActionsValues}
    \cup {[k \in {"overall_status"} |-> s] : s \in {"blocked", "ready"}}

InitPlan ==
    /\ MainIdle /\ CallIdle /\ ExtractIdle
    /\ plan_pc = "start"
    /\ analysis \in AnalysisSet
    /\ allow_sudo \in {"yes", "no"}
    /\ mode \in {"plan", "guided"}
    /\ actions = <<>>
    /\ steps = <<>>
    /\ manual_prerequisites = <<>>
    /\ step_counter = 1

(* lines 62-98: the preflight step, then the actions of the analysis or the
   one default action *)
PlanStart ==
    /\ plan_pc = "start"
    /\ steps' = <<build_preflight_step(StepId(step_counter))>>
    /\ step_counter' = step_counter + 1
    /\ LET given == Get(analysis, "recommended_actions", [type |-> "array", items |-> <<>>])
           listed == IF given.type = "array" THEN given.items ELSE <<>>
           status == Get(analysis, "overall_status", "unknown")
       IN actions' = IF listed # <<>> THEN listed
                     ELSE IF status = "blocked" THEN <<action_blocked>>
                     ELSE <<action_ready>>
    /\ plan_pc' = "loop"
    /\ UNCHANGED <<analysis, allow_sudo, mode, manual_prerequisites>>
    /\ UNCHANGED <<main_vars, call_vars, extract_vars>>

(* lines 119-122 *)
WithApproval(action) ==
    [k \in DOMAIN action \cup {"approval_required"} |->
        IF k = "approval_required"
        THEN mode = "guided" /\ action.risk_level \in {<<"medium">>, <<"high">>}
        ELSE action[k]]

(* variant: the placeholder keeps the sudo flag of the action *)
SudoPlaceholder_KeepFlag(action) ==
    [id |-> action.id,
     command |-> <<"echo \"Manual sudo prerequisite: ">> \o action.command \o <<"\"">>,
     requires_sudo |-> action.requires_sudo,
     risk_level |-> <<"high">>,
     rollback_hint |-> <<"No command executed because sudo is disabled.">>,
     verify_command |-> <<"echo \"Manual prerequisite recorded.\"">>]

(* lines 113-117 *)
SudoPlaceholder(action) ==
    [id |-> action.id,
     command |-> <<"echo \"Manual sudo prerequisite: ">> \o action.command \o <<"\"">>,
     requires_sudo |-> FALSE,
     risk_level |-> <<"high">>,
     rollback_hint |-> <<"No command executed because sudo is disabled.">>,
     verify_command |-> <<"echo \"Manual prerequisite recorded.\"">>]

(* lines 100-124: one pass of the loop over actions *)
PlanStep ==
    /\ plan_pc = "loop"
    /\ step_counter - 1 <= Len(actions)
    /\ LET raw_action == actions[step_counter - 1]
           action == [ensure_step_shape(raw_action) EXCEPT !.id = StepId(step_counter)]
       IN IF allow_sudo = "no" /\ action.requires_sudo
          THEN /\ manual_prerequisites' =
                      Append(manual_prerequisites,
                             [id |-> action.id, original_command |-> action.command,
                              reason |-> "allow-sudo=no"])
               /\ steps' = Append(steps, WithApproval(SudoPlaceholder(action)))
          ELSE /\ UNCHANGED manual_prerequisites
               /\ steps' = Append(steps, WithApproval(action))
    /\ step_counter' = step_counter + 1
    /\ UNCHANGED <<plan_pc, analysis, allow_sudo, mode, actions>>
    /\ UNCHANGED <<main_vars, call_vars, extract_vars>>

(* lines 126-138: the payload is written *)
PlanFinish ==
    /\ plan_pc = "loop"
    /\ step_counter - 1 > Len(actions)
    /\ plan_pc' = "done"
    /\ UNCHANGED <<analysis, allow_sudo, mode, actions, steps, manual_prerequisites,
                   step_counter>>
    /\ UNCHANGED <<main_vars, call_vars, extract_vars>>

NextPlan == PlanStart \/ PlanStep \/ PlanFinish

SpecPlan == InitPlan /\ [][NextPlan]_vars

(* C19: in the generated plan, when allow-sudo is "no" no emitted step has
   requires_sudo true: every action that required sudo is rewritten to a
   non-sudo, high-risk echo placeholder and is recorded exactly once in
   manual_prerequisites with its step id and its original command, while an
   action that did not require sudo keeps its command, flag, risk level,
   rollback hint and verify command and is not recorded; when allow-sudo is
   "yes" manual_prerequisites is empty. *)
RequiredSudo(raw_action) ==
    /\ "requires_sudo" \in DOMAIN raw_action
    /\ raw_action.requires_sudo \in {"true", "1"}

FieldOf(raw_action, field, default) ==
    IF field \in DOMAIN raw_action THEN raw_action[field] ELSE default

PrerequisitesFor(step_id) ==
    {m \in 1..Len(manual_prerequisites) : manual_prerequisites[m].id = step_id}

IsEchoPlaceholderFor(command, original) ==
    /\ Len(command) = Len(original) + 2
    /\ command[1] = "echo \"Manual sudo prerequisite: "
    /\ SubSeq(command, 2, Len(command) - 1) = original
    /\ command[Len(command)] = "\""

C19_SudoGating ==
    plan_pc = "done" =>
        /\ Len(steps) = Len(actions) + 1
        /\ allow_sudo = "yes" => manual_prerequisites = <<>>
        /\ allow_sudo = "no" =>
              /\ \A i \in 1..Len(steps) : ~steps[i].requires_sudo
              /\ \A k \in 1..Len(actions) :
                    LET raw_action == actions[k]
                        step == steps[k + 1]
                        original == FieldOf(raw_action, "command", <<"echo \"No command provided\"">>)
                    IN IF RequiredSudo(raw_action)
                       THEN /\ step.risk_level = <<"high">>
                            /\ IsEchoPlaceholderFor(step.command, original)
                            /\ Cardinality(PrerequisitesFor(step.id)) = 1
                            /\ \A m \in PrerequisitesFor(step.id) :
                                  manual_prerequisites[m].original_command = original
                       ELSE /\ step.command = original
                            /\ step.risk_level = FieldOf(raw_action, "risk_level", <<"medium">>)
                            /\ step.rollback_hint =
                                  FieldOf(raw_action, "rollback_hint",
                                          <<"Document rollback before execution.">>)
                            /\ step.verify_command =
                                  FieldOf(raw_action, "verify_command",
                                          <<"echo \"No verify command provided\"">>)
                            /\ PrerequisitesFor(step.id) = {}
              /\ PrerequisitesFor(steps[1].id) = {}
              /\ Len(manual_prerequisites) =
                    Cardinality({k \in 1..Len(actions) : RequiredSudo(actions[k])})

(* allow-sudo "no", the apt action (sudo, low risk) then the pip action: one
   prerequisite for step-002, whose step is now high-risk; step-003 as given *)
C19_Witness ==
    /\ plan_pc = "done"
    /\ allow_sudo = "no"
    /\ actions = <<action_apt, action_pytorch>>
    /\ Len(manual_prerequisites) = 1
    /\ manual_prerequisites[1].id = <<"step-", "0", "0", "2">>
    /\ manual_prerequisites[1].original_command = action_apt.command
    /\ ~steps[2].requires_sudo
    /\ steps[2].risk_level = <<"high">>
    /\ steps[3].command = action_pytorch.command
    /\ steps[3].risk_level = <<"medium">>

====
